---------------------------- MODULE Spec2Model ----------------------------
(***************************************************************************)
(* Iterative mass-balance engine of the flowsheet simulator                *)
(* (src/new_functions.ts): data propagation, equipment transfer functions, *)
(* mass-balance closure, normalisation and the convergence loop.           *)
(*                                                                         *)
(* Numbers.  The program computes with IEEE doubles; the model computes    *)
(* with exact rationals <<numerator, denominator>> in lowest terms, so     *)
(* that divisions, thresholds (0.001, 0.01, 0.1) and "exactly equal" are   *)
(* decided by the arithmetic the code writes and not by a rounding mode.   *)
(*                                                                         *)
(* Duplicate declarations.  calculateEquipmentBalanceWithClosure and       *)
(* applyGlobalMassBalanceWithClosure are each declared twice in the file   *)
(* (lines 2 and 1863, lines 71 and 1996).  JavaScript binds a function     *)
(* name to its last declaration, so the model follows lines 1863-1993 and  *)
(* 1996-2112.                                                              *)
(***************************************************************************)
EXTENDS Integers, Sequences, FiniteSets, TLC

VARIABLES
    equipments,           \* argument: the equipment list
    flowLines,            \* argument: the flow-line array
    mineralComponents,    \* argument: the component list
    maxIterations,        \* argument
    tolerance,            \* argument (a rational, in percent)
    pc,                   \* position of the run
    propagatedFlowLines,  \* result of propagateStreamData
    streams,              \* the DetailedStream array of the run
    prevStreams,          \* the stream array before the step just taken
    iteration,            \* loop counter of solveIterativeMassBalance
    converged,            \* loop flag of solveIterativeMassBalance
    checkLog,             \* outcome of every convergence test so far
    iterativeResult,      \* the IterativeResult returned
    call                  \* a single call: its argument as it is after the
                          \* call, and its result

vars == <<equipments, flowLines, mineralComponents, maxIterations, tolerance,
          pc, propagatedFlowLines, streams, prevStreams, iteration, converged,
          checkLog, iterativeResult, call>>

-----------------------------------------------------------------------------
(* Exact rational arithmetic *)

RECURSIVE GCD(_, _)
GCD(a, b) == IF b = 0 THEN a ELSE GCD(b, a % b)

Abs(n) == IF n < 0 THEN -n ELSE n

\* n/d in lowest terms with a positive denominator
Rat(n, d) ==
    LET g == GCD(Abs(n), Abs(d))
        s == IF d < 0 THEN -1 ELSE 1
    IN  <<(s * n) \div g, (s * d) \div g>>

Int2R(n) == <<n, 1>>
Zero == <<0, 1>>

RAdd(x, y) ==
    LET g == GCD(x[2], y[2])
    IN  Rat(x[1] * (y[2] \div g) + y[1] * (x[2] \div g), (x[2] \div g) * y[2])
RSub(x, y) == RAdd(x, <<-y[1], y[2]>>)
RMul(x, y) ==
    LET g1 == GCD(Abs(x[1]), y[2])
        g2 == GCD(Abs(y[1]), x[2])
    IN  Rat((x[1] \div g1) * (y[1] \div g2), (x[2] \div g2) * (y[2] \div g1))
\* x / y for y # 0 (every division of the code the model reaches is guarded)
RDiv(x, y) == RMul(x, Rat(y[2], y[1]))
\* x < y, by integer parts and then by the reciprocals of the fractional parts
RECURSIVE RLt(_, _)
RLt(x, y) ==
    LET qx == x[1] \div x[2]
        qy == y[1] \div y[2]
        rx == x[1] % x[2]
        ry == y[1] % y[2]
    IN  IF qx # qy THEN qx < qy
        ELSE IF ry = 0 THEN FALSE
        ELSE IF rx = 0 THEN TRUE
        ELSE RLt(<<y[2], ry>>, <<x[2], rx>>)
RLe(x, y) == ~RLt(y, x)
RGt(x, y) == RLt(y, x)
RAbs(x) == <<Abs(x[1]), x[2]>>
RPos(x) == x[1] > 0
RIsZero(x) == x[1] = 0

\* JavaScript a || b on numbers: 0 is falsy
OrNum(a, b) == IF RIsZero(a) THEN b ELSE a

\* Sum of f[k] over the finite set S
RECURSIVE RSum(_, _)
RSum(f, S) ==
    IF S = {} THEN Zero
    ELSE LET k == CHOOSE e \in S : TRUE IN RAdd(f[k], RSum(f, S \ {k}))

RECURSIVE RMaxOf(_, _)
RMaxOf(f, S) ==
    IF S = {} THEN Zero
    ELSE LET k == CHOOSE e \in S : TRUE
             m == RMaxOf(f, S \ {k})
         IN  IF RGt(f[k], m) THEN f[k] ELSE m

-----------------------------------------------------------------------------
(* Data model *)

None == ""                       \* an absent fromEquipment / toEquipment

EmptyMap == [c \in {} |-> Zero]

\* componentGrades: absent (has = FALSE) or a map from component ids to grades
NoGrades == [has |-> FALSE, map |-> EmptyMap]
Grades(m) == [has |-> TRUE, map |-> m]
\* components: absent or a list of component ids
NoComps == [has |-> FALSE, list |-> <<>>]
Comps(l) == [has |-> TRUE, list |-> l]

ActiveComponents(mc) == SelectSeq(mc, LAMBDA c : c.isActive)
Ids(ac) == {ac[k].id : k \in DOMAIN ac}

\* m[c] || 0 for a map m that may lack the key c
Get(m, c) == IF c \in DOMAIN m THEN m[c] ELSE Zero

-----------------------------------------------------------------------------
(* propagateStreamData (lines 146-281) *)

MaxPropagationPasses == 10
DefaultFlow == 1000
DefaultSolidPercent == 70
DefaultDensity == <<14, 5>>      \* 2.8
DefaultParticleSize == 150

\* the filter of CASE 1 and CASE 2: flowRate === 0 || !componentGrades ||
\* Object.keys(componentGrades).length === 0
LacksData(fl) ==
    RIsZero(fl.flowRate) \/ ~fl.componentGrades.has
        \/ DOMAIN fl.componentGrades.map = {}

\* the inner test of CASE 1 and CASE 2: flowRate === 0 || !componentGrades
NeedsCopy(fl) == RIsZero(fl.flowRate) \/ ~fl.componentGrades.has

\* {...a, ...b} on grade maps
Spread(a, b) ==
    [c \in (DOMAIN a) \cup (DOMAIN b) |-> IF c \in DOMAIN b THEN b[c] ELSE a[c]]

\* a.components || b.components || []   ([] is truthy)
OrComps(a, b) == IF a.has THEN a ELSE IF b.has THEN b ELSE Comps(<<>>)

\* a forward copy in which the grades of the feed win over the grades the
\* output stream already has
CopyForwardOverwriting(out, fl) ==
    [out EXCEPT
        !.flowRate = OrNum(out.flowRate, fl.flowRate),
        !.solidPercent = OrNum(out.solidPercent, fl.solidPercent),
        !.density = OrNum(out.density, fl.density),
        !.particleSize = OrNum(out.particleSize, fl.particleSize),
        !.components = OrComps(out.components, fl.components),
        !.componentGrades =
            Grades(Spread(out.componentGrades.map, fl.componentGrades.map))]

\* CASE 1: the record written over an output stream, copied from feed fl
CopyForward(out, fl) ==
    [out EXCEPT
        !.flowRate = OrNum(out.flowRate, fl.flowRate),
        !.solidPercent = OrNum(out.solidPercent, fl.solidPercent),
        !.density = OrNum(out.density, fl.density),
        !.particleSize = OrNum(out.particleSize, fl.particleSize),
        !.components = OrComps(out.components, fl.components),
        !.componentGrades =
            Grades(Spread(fl.componentGrades.map, out.componentGrades.map))]

\* CASE 2: the record written over an input stream, copied from product fl
CopyBackward(inp, fl) ==
    [inp EXCEPT
        !.flowRate = OrNum(inp.flowRate, fl.flowRate),
        !.solidPercent = OrNum(inp.solidPercent, fl.solidPercent),
        !.density = OrNum(inp.density, fl.density),
        !.particleSize =
            OrNum(inp.particleSize,
                  RMul(OrNum(fl.particleSize, Int2R(DefaultParticleSize)), Int2R(2))),
        !.components = OrComps(inp.components, fl.components),
        !.componentGrades =
            Grades(Spread(fl.componentGrades.map, inp.componentGrades.map))]

\* CASE 3: default grades of the active components, normalised to 100
DefaultGrades(ac) ==
    LET raw == [c \in Ids(ac) |->
                   (CHOOSE k \in DOMAIN ac : ac[k].id = c) ] 
        g == [c \in Ids(ac) |-> ac[raw[c]].defaultGrade]
        total == RSum(g, Ids(ac))
    IN  IF RPos(total)
        THEN [c \in Ids(ac) |-> RMul(g[c], RDiv(Int2R(100), total))]
        ELSE g

NeedsDefaults(fl) ==
    /\ (~fl.components.has \/ Len(fl.components.list) = 0)
    /\ (~fl.componentGrades.has \/ DOMAIN fl.componentGrades.map = {})

WithDefaults(fl, ac) ==
    [fl EXCEPT
        !.components = Comps([k \in DOMAIN ac |-> ac[k].id]),
        !.componentGrades = Grades(DefaultGrades(ac))]

\* CASE 4: the estimated flow of a stream without flow rate
EstimatedFlow(u, fl) ==
    LET sib == {j \in DOMAIN u :
                   u[j].toEquipment = fl.fromEquipment /\ RPos(u[j].flowRate)}
    IN  IF fl.fromEquipment # None /\ sib # {}
        THEN RSum([j \in DOMAIN u |-> u[j].flowRate], sib)
        ELSE Int2R(DefaultFlow)

WithFlow(u, fl) ==
    [fl EXCEPT
        !.flowRate = EstimatedFlow(u, fl),
        !.solidPercent = OrNum(fl.solidPercent, Int2R(DefaultSolidPercent)),
        !.density = OrNum(fl.density, DefaultDensity)]

\* The body of the inner loop for index i: flowLine is read once, before the
\* four cases, and CASE 3 and CASE 4 both write {...flowLine, ...} to slot i.
PropagateLine(u, i, ac) ==
    LET flowLine == u[i]
        isFeed == flowLine.fromEquipment = None /\ flowLine.toEquipment # None
        isProduct == flowLine.fromEquipment # None /\ flowLine.toEquipment = None
        outs == IF isFeed
                THEN {j \in DOMAIN u :
                         /\ u[j].fromEquipment = flowLine.toEquipment
                         /\ LacksData(u[j]) /\ NeedsCopy(u[j])}
                ELSE {}
        u1 == [j \in DOMAIN u |->
                  IF j \in outs THEN CopyForward(u[j], flowLine) ELSE u[j]]
        ins == IF isProduct
               THEN {j \in DOMAIN u1 :
                        /\ u1[j].toEquipment = flowLine.fromEquipment
                        /\ LacksData(u1[j]) /\ NeedsCopy(u1[j])}
               ELSE {}
        u2 == [j \in DOMAIN u1 |->
                  IF j \in ins THEN CopyBackward(u1[j], flowLine) ELSE u1[j]]
        c3 == NeedsDefaults(flowLine)
        u3 == IF c3 THEN [u2 EXCEPT ![i] = WithDefaults(flowLine, ac)] ELSE u2
        c4 == RIsZero(flowLine.flowRate)
        u4 == IF c4 THEN [u3 EXCEPT ![i] = WithFlow(u3, flowLine)] ELSE u3
    IN  [lines |-> u4,
         changes |-> Cardinality(outs) + Cardinality(ins)
                        + (IF c3 THEN 1 ELSE 0) + (IF c4 THEN 1 ELSE 0)]

\* One pass of the outer loop over all indices, from index i on
RECURSIVE PropagatePass(_, _, _, _)
PropagatePass(u, i, ac, changes) ==
    IF i > Len(u) THEN [lines |-> u, changes |-> changes]
    ELSE LET r == PropagateLine(u, i, ac)
         IN  PropagatePass(r.lines, i + 1, ac, changes + r.changes)

\* a propagation that stops after its first pass
PropagateOnce(u, it, ac) == PropagatePass(u, 1, ac, 0).lines

RECURSIVE PropagateFrom(_, _, _)
PropagateFrom(u, it, ac) ==
    IF it >= MaxPropagationPasses THEN u
    ELSE LET r == PropagatePass(u, 1, ac, 0)
         IN  IF r.changes = 0 THEN r.lines
             ELSE PropagateFrom(r.lines, it + 1, ac)

\* an array that is the caller's own array, not a copy of it
SharedArray(fls) == [shared |-> TRUE, lines |-> fls]

\* const updatedFlowLines = [...flowLines]: the array the function works on is
\* a copy of the caller's, and every write to it (CASE 1 to CASE 4) stores a
\* new record in one of its slots
UpdatedFlowLines(fls) == [shared |-> FALSE, lines |-> fls]

propagateStreamData(fls, mc) ==
    PropagateFrom(UpdatedFlowLines(fls).lines, 0, ActiveComponents(mc))

\* what the caller's array holds once the call has returned: the writes reach
\* it only if the function worked on the caller's array itself
ArgumentAfter(fls, mc) ==
    IF UpdatedFlowLines(fls).shared THEN propagateStreamData(fls, mc) ELSE fls

-----------------------------------------------------------------------------
(* DetailedStream and convertToDetailedStream (lines 501-537) *)

Hundred == Int2R(100)
Pct(x) == RDiv(x, Hundred)       \* x / 100

\* a ? x / y * 100 : 0, the guarded percentage the code writes everywhere
PercentOf(x, y) == IF RPos(y) THEN RMul(RDiv(x, y), Hundred) ELSE Zero

VolumetricFlow(solidFlow, density, waterFlow) ==
    RAdd(RDiv(solidFlow, density), waterFlow)

convertToDetailedStream(flowLine, ac) ==
    LET solidFlow == RMul(flowLine.flowRate, Pct(flowLine.solidPercent))
        waterFlow == RSub(flowLine.flowRate, solidFlow)
        mass == [c \in Ids(ac) |->
                    RMul(solidFlow, Pct(Get(flowLine.componentGrades.map, c)))]
    IN  [flowRate |-> flowLine.flowRate,
         solidPercent |-> flowLine.solidPercent,
         density |-> OrNum(flowLine.density, DefaultDensity),
         particleSize |-> OrNum(flowLine.particleSize, Int2R(DefaultParticleSize)),
         volumetricFlow |->
             VolumetricFlow(solidFlow, OrNum(flowLine.density, DefaultDensity),
                            waterFlow),
         componentMass |-> mass,
         componentPercentages |->
             [c \in Ids(ac) |-> PercentOf(mass[c], flowLine.flowRate)],
         waterFlow |-> waterFlow,
         solidFlow |-> solidFlow]

\* indices of the input-class (no fromEquipment) and output-class (no
\* toEquipment) flow lines
InputIndices(fls) == {i \in DOMAIN fls : fls[i].fromEquipment = None}
OutputIndices(fls) == {i \in DOMAIN fls : fls[i].toEquipment = None}

TotalFlow(ss, S) == RSum([i \in DOMAIN ss |-> ss[i].flowRate], S)
TotalSolids(ss, S) == RSum([i \in DOMAIN ss |-> ss[i].solidFlow], S)
TotalMass(ss, S, c) == RSum([i \in DOMAIN ss |-> Get(ss[i].componentMass, c)], S)

\* x / n for a count n > 0
Share(x, n) == RDiv(x, Int2R(n))

-----------------------------------------------------------------------------
(* applyMassBalanceClosure (lines 392-490) *)

\* totalOutputFlow === 0 || |in - out| / in > 0.1; the quotient is Infinity
\* when the input total is 0 and the output total is not
FlowClosureNeeded(tin, tout) ==
    \/ RIsZero(tout)
    \/ RIsZero(tin)
    \/ RGt(RDiv(RAbs(RSub(tin, tout)), tin), <<1, 10>>)

\* a bulk-flow closure that corrects the flow rate and takes the water as
\* what the solids the stream had before leave of it
ClosureFlowOverOldSolids(ss, fls) ==
    LET ins == InputIndices(fls)
        outs == OutputIndices(fls)
        tin == TotalFlow(ss, ins)
        tout == TotalFlow(ss, outs)
        flowPerOutput == Share(tin, Cardinality(outs))
    IN  IF FlowClosureNeeded(tin, tout)
        THEN [i \in DOMAIN ss |->
                 IF i \in outs
                 THEN [ss[i] EXCEPT
                          !.flowRate = flowPerOutput,
                          !.waterFlow = RSub(flowPerOutput, ss[i].solidFlow),
                          !.solidPercent = PercentOf(ss[i].solidFlow, flowPerOutput)]
                 ELSE ss[i]]
        ELSE ss

\* the bulk-flow part: every output-class stream gets the equal share
ClosureFlow(ss, fls) ==
    LET ins == InputIndices(fls)
        outs == OutputIndices(fls)
        tin == TotalFlow(ss, ins)
        tsol == TotalSolids(ss, ins)
        tout == TotalFlow(ss, outs)
        flowPerOutput == Share(tin, Cardinality(outs))
        solidsPerOutput == Share(tsol, Cardinality(outs))
    IN  IF FlowClosureNeeded(tin, tout)
        THEN [i \in DOMAIN ss |->
                 IF i \in outs
                 THEN [ss[i] EXCEPT
                          !.flowRate = flowPerOutput,
                          !.solidFlow = solidsPerOutput,
                          !.solidPercent = PercentOf(solidsPerOutput, flowPerOutput)]
                 ELSE ss[i]]
        ELSE ss

\* the component part for one stream i and one component c
\* a component closure without the reverse case
ClosureMassForwardOnly(ss, fls, i, c) ==
    LET tin == TotalMass(ss, InputIndices(fls), c)
        tout == TotalMass(ss, OutputIndices(fls), c)
    IN  IF RPos(tin) /\ RGt(RAbs(RSub(tin, tout)), <<1, 1000>>)
             /\ i \in OutputIndices(fls)
        THEN RMul(Get(ss[i].componentMass, c), RDiv(tin, OrNum(tout, Int2R(1))))
        ELSE ss[i].componentMass[c]

ClosureMass(ss, fls, i, c) ==
    LET ins == InputIndices(fls)
        outs == OutputIndices(fls)
        tin == TotalMass(ss, ins, c)
        tout == TotalMass(ss, outs, c)
        forward == RPos(tin) /\ RGt(RAbs(RSub(tin, tout)), <<1, 1000>>)
        reverse == RIsZero(tin) /\ RPos(tout)
        correctionFactor == RDiv(tin, OrNum(tout, Int2R(1)))
    IN  IF forward /\ i \in outs
        THEN RMul(Get(ss[i].componentMass, c), correctionFactor)
        ELSE IF reverse /\ i \in ins
        THEN Share(tout, Cardinality(ins))
        ELSE ss[i].componentMass[c]

ClosureTouches(ss, fls, i, c) ==
    LET ins == InputIndices(fls)
        outs == OutputIndices(fls)
        tin == TotalMass(ss, ins, c)
        tout == TotalMass(ss, outs, c)
    IN  \/ RPos(tin) /\ RGt(RAbs(RSub(tin, tout)), <<1, 1000>>) /\ i \in outs
        \/ RIsZero(tin) /\ RPos(tout) /\ i \in ins

applyMassBalanceClosure(ss, fls, ac) ==
    IF InputIndices(fls) = {} \/ OutputIndices(fls) = {} THEN ss
    ELSE LET closed == ClosureFlow(ss, fls)
         IN  [i \in DOMAIN closed |->
                 [closed[i] EXCEPT
                     !.componentMass =
                         [c \in Ids(ac) |-> ClosureMass(closed, fls, i, c)],
                     !.componentPercentages =
                         [c \in Ids(ac) |->
                             IF ClosureTouches(closed, fls, i, c)
                             THEN PercentOf(ClosureMass(closed, fls, i, c),
                                            closed[i].solidFlow)
                             ELSE closed[i].componentPercentages[c]]]]

-----------------------------------------------------------------------------
(* calculateEquipmentBalanceWithClosure (lines 1863-1993) *)

DefaultRecovery == 85
ConcentrateSolidPercent == 65
TailingSolidPercent == 35
ConcentrateMassFraction == <<3, 10>>     \* 0.3

\* an optional numeric parameter is 0 when it is not configured
NoSplits == [has |-> FALSE, list |-> <<>>]
Splits(l) == [has |-> TRUE, list |-> l]

\* a component total that reads the first input stream only
FirstInputComponentMass(inputs, c) == Get(inputs[1].componentMass, c)

\* lines 1871-1880: the totals over the input streams
TotalInputFlow(inputs) ==
    RSum([k \in DOMAIN inputs |-> inputs[k].flowRate], DOMAIN inputs)
TotalInputSolids(inputs) ==
    RSum([k \in DOMAIN inputs |-> inputs[k].solidFlow], DOMAIN inputs)
TotalInputComponentMass(inputs, c) ==
    RSum([k \in DOMAIN inputs |-> Get(inputs[k].componentMass, c)], DOMAIN inputs)

MixerOutputs(equipment, inputs, ac) ==
    LET totalInputFlow == TotalInputFlow(inputs)
        totalInputSolids == TotalInputSolids(inputs)
        numOutputs == IF equipment.parameters.numberOfOutputs = 0 THEN 1
                      ELSE equipment.parameters.numberOfOutputs
        equal == Rat(100, numOutputs)
        splits == equipment.parameters.splits
        \* (splits[i] || 100/numOutputs) / 100
        splitFraction(i) ==
            Pct(IF splits.has /\ i <= Len(splits.list)
                THEN OrNum(splits.list[i], equal) ELSE equal)
    IN  [i \in 1..numOutputs |->
            LET outputFlow == RMul(totalInputFlow, splitFraction(i))
                outputSolids == RMul(totalInputSolids, splitFraction(i))
                mass == [c \in Ids(ac) |->
                            RMul(TotalInputComponentMass(inputs, c),
                                 splitFraction(i))]
            IN  [flowRate |-> outputFlow,
                 solidPercent |-> PercentOf(outputSolids, outputFlow),
                 density |-> DefaultDensity,
                 particleSize |-> Int2R(DefaultParticleSize),
                 volumetricFlow |->
                     VolumetricFlow(outputSolids, DefaultDensity,
                                    RSub(outputFlow, outputSolids)),
                 componentMass |-> mass,
                 componentPercentages |->
                     [c \in Ids(ac) |-> PercentOf(mass[c], outputSolids)],
                 waterFlow |-> RSub(outputFlow, outputSolids),
                 solidFlow |-> outputSolids]]

\* equipment.parameters.components?.[c]?.recovery || recovery
ComponentRecovery(equipment, c) ==
    LET recovery == OrNum(equipment.parameters.recovery, Int2R(DefaultRecovery))
    IN  OrNum(Get(equipment.parameters.components, c), recovery)

FlotationOutputs(equipment, inputs, ac) ==
    LET input == inputs[1]
        totalInputFlow == TotalInputFlow(inputs)
        inputMass(c) == TotalInputComponentMass(inputs, c)
        concMass == [c \in Ids(ac) |->
                        RMul(inputMass(c), Pct(ComponentRecovery(equipment, c)))]
        tailMass == [c \in Ids(ac) |-> RSub(inputMass(c), concMass[c])]
        concentrateFlow == RMul(totalInputFlow, ConcentrateMassFraction)
        tailingFlow == RSub(totalInputFlow, concentrateFlow)
        concentrateSolids == RMul(concentrateFlow, Pct(Int2R(ConcentrateSolidPercent)))
        tailingSolids == RMul(tailingFlow, Pct(Int2R(TailingSolidPercent)))
        Out(flow, sp, solids, mass) ==
            [flowRate |-> flow,
             solidPercent |-> Int2R(sp),
             density |-> input.density,
             particleSize |-> input.particleSize,
             volumetricFlow |->
                 VolumetricFlow(solids, input.density, RSub(flow, solids)),
             componentMass |-> mass,
             componentPercentages |->
                 [c \in Ids(ac) |-> PercentOf(mass[c], solids)],
             waterFlow |-> RSub(flow, solids),
             solidFlow |-> solids]
    IN  <<Out(concentrateFlow, ConcentrateSolidPercent, concentrateSolids, concMass),
          Out(tailingFlow, TailingSolidPercent, tailingSolids, tailMass)>>

\* default branch: one copy per input, particle size reduced
PassThroughOutputs(equipment, inputs) ==
    [k \in DOMAIN inputs |->
        [inputs[k] EXCEPT
            !.particleSize =
                OrNum(equipment.parameters.targetSize,
                      RMul(inputs[k].particleSize, <<1, 2>>))]]

calculateEquipmentBalanceWithClosure(equipment, inputs, ac) ==
    IF Len(inputs) = 0 THEN <<>>
    ELSE IF equipment.type = "mixer" THEN MixerOutputs(equipment, inputs, ac)
    ELSE IF equipment.type \in {"rougher", "cleaner", "recleaner"}
    THEN FlotationOutputs(equipment, inputs, ac)
    ELSE PassThroughOutputs(equipment, inputs)

-----------------------------------------------------------------------------
(* The equipment loop of solveIterativeMassBalance (lines 322-350) *)

\* indices, in array order, of the flow lines entering / leaving equipment id
LinesInto(fls, id) ==
    SelectSeq([i \in 1..Len(fls) |-> i], LAMBDA i : fls[i].toEquipment = id)
LinesOutOf(fls, id) ==
    SelectSeq([i \in 1..Len(fls) |-> i], LAMBDA i : fls[i].fromEquipment = id)

\* propagatedFlowLines.findIndex(fl => fl.id === id), for an id in the array
FindIndex(fls, id) ==
    CHOOSE i \in DOMAIN fls :
        fls[i].id = id /\ \A j \in DOMAIN fls : fls[j].id = id => i <= j

\* the input streams of an equipment, in flow-line order (lines 323-330)
InputStreams(ss, fls, equipment) ==
    LET inIdx == LinesInto(fls, equipment.id)
    IN  [k \in DOMAIN inIdx |-> ss[FindIndex(fls, fls[inIdx[k]].id)]]

\* compute the outputs of a fed equipment and write them (lines 334-349)
WriteOutputs(ss, fls, equipment, ac) ==
    LET inputStreams == InputStreams(ss, fls, equipment)
        outputStreams ==
            calculateEquipmentBalanceWithClosure(equipment, inputStreams, ac)
        outIdx == LinesOutOf(fls, equipment.id)
        \* position of stream index i among the outputs to write, or 0
        slot(i) == IF \E k \in DOMAIN outIdx :
                          FindIndex(fls, fls[outIdx[k]].id) = i
                                /\ k <= Len(outputStreams)
                   THEN CHOOSE k \in DOMAIN outIdx :
                          /\ FindIndex(fls, fls[outIdx[k]].id) = i
                          /\ k <= Len(outputStreams)
                          /\ \A m \in DOMAIN outIdx :
                                (FindIndex(fls, fls[outIdx[m]].id) = i
                                    /\ m <= Len(outputStreams)) => m <= k
                   ELSE 0
    IN  [i \in DOMAIN ss |->
            IF slot(i) # 0 THEN outputStreams[slot(i)] ELSE ss[i]]

\* an equipment loop that empties the streams leaving an unfed equipment
\* instead of skipping it
TransferEmptyingUnfed(ss, fls, equipment, ac) ==
    IF Len(InputStreams(ss, fls, equipment)) = 0
    THEN [i \in DOMAIN ss |->
             IF fls[i].fromEquipment = equipment.id
             THEN [ss[i] EXCEPT !.flowRate = Zero] ELSE ss[i]]
    ELSE WriteOutputs(ss, fls, equipment, ac)

\* one equipment: read its input streams, compute, write its output streams
TransferEquipment(ss, fls, equipment, ac) ==
    IF Len(InputStreams(ss, fls, equipment)) = 0 THEN ss
    ELSE WriteOutputs(ss, fls, equipment, ac)

\* an equipment loop in which every equipment reads the stream array as it
\* was before the loop
TransferAllFromSnapshot(ss, fls, eqs, k, ac) ==
    [i \in DOMAIN ss |->
        IF \E j \in DOMAIN eqs : eqs[j].id = fls[i].fromEquipment
        THEN LET j == CHOOSE j \in DOMAIN eqs : eqs[j].id = fls[i].fromEquipment
             IN  TransferEquipment(ss, fls, eqs[j], ac)[i]
        ELSE ss[i]]

RECURSIVE TransferAll(_, _, _, _, _)
TransferAll(ss, fls, eqs, k, ac) ==
    IF k > Len(eqs) THEN ss
    ELSE TransferAll(TransferEquipment(ss, fls, eqs[k], ac), fls, eqs, k + 1, ac)

-----------------------------------------------------------------------------
(* applyGlobalMassBalanceWithClosure (lines 1996-2112) *)

\* CASE 1 of the component loop: the outputs are overwritten
GlobalForward(tin, tout) ==
    /\ RPos(tin)
    /\ \/ RIsZero(tout)
       \/ RGt(RAbs(RSub(RDiv(tin, OrNum(tout, <<1, 1000>>)), Int2R(1))), <<1, 100>>)

\* CASE 2 of the component loop: the inputs are overwritten
GlobalReverse(tin, tout) == ~RPos(tin) /\ RPos(tout)

GlobalMass(ss, fls, i, c) ==
    LET ins == InputIndices(fls)
        outs == OutputIndices(fls)
        tin == TotalMass(ss, ins, c)
        tout == TotalMass(ss, outs, c)
    IN  IF GlobalForward(tin, tout) /\ i \in outs
        THEN [touched |-> TRUE, mass |-> Share(tin, Cardinality(outs))]
        ELSE IF GlobalReverse(tin, tout) /\ i \in ins
        THEN [touched |-> TRUE, mass |-> Share(tout, Cardinality(ins))]
        ELSE [touched |-> FALSE, mass |-> ss[i].componentMass[c]]

GlobalComponents(ss, fls, ac) ==
    [i \in DOMAIN ss |->
        [ss[i] EXCEPT
            !.componentMass = [c \in Ids(ac) |-> GlobalMass(ss, fls, i, c).mass],
            !.componentPercentages =
                [c \in Ids(ac) |->
                    IF GlobalMass(ss, fls, i, c).touched
                    THEN PercentOf(GlobalMass(ss, fls, i, c).mass, ss[i].solidFlow)
                    ELSE ss[i].componentPercentages[c]]]]

\* a stream with its bulk flow replaced, solids percent kept
WithFlowRate(st, flow) ==
    LET solidFlow == RMul(flow, Pct(st.solidPercent))
        waterFlow == RMul(flow, RSub(Int2R(1), Pct(st.solidPercent)))
    IN  [st EXCEPT
            !.flowRate = flow,
            !.solidFlow = solidFlow,
            !.waterFlow = waterFlow,
            !.volumetricFlow = VolumetricFlow(solidFlow, st.density, waterFlow)]

GlobalFlow(ss, fls) ==
    LET ins == InputIndices(fls)
        outs == OutputIndices(fls)
        tin == TotalFlow(ss, ins)
        tout == TotalFlow(ss, outs)
    IN  IF RPos(tin) /\ (RIsZero(tout) \/ RGt(RAbs(RSub(tin, tout)), <<1, 100>>))
        THEN [i \in DOMAIN ss |->
                 IF i \in outs
                 THEN WithFlowRate(ss[i], Share(tin, Cardinality(outs)))
                 ELSE ss[i]]
        ELSE IF RPos(tout) /\ RIsZero(tin)
        THEN [i \in DOMAIN ss |->
                 IF i \in ins
                 THEN WithFlowRate(ss[i], Share(tout, Cardinality(ins)))
                 ELSE ss[i]]
        ELSE ss

applyGlobalMassBalanceWithClosure(ss, fls, ac) ==
    IF InputIndices(fls) = {} \/ OutputIndices(fls) = {} THEN ss
    ELSE GlobalFlow(GlobalComponents(ss, fls, ac), fls)

-----------------------------------------------------------------------------
(* normalizeStreamCompositions (lines 718-748) *)

TotalPercentage(st, ac) == RSum(st.componentPercentages, Ids(ac))

\* a normalisation step that leaves every stream as it is
NormalizeNothing(st, ac) == st

NormalizeStream(st, ac) ==
    LET totalPercentage == TotalPercentage(st, ac)
        normalizationFactor == RDiv(Hundred, totalPercentage)
        pct == [c \in Ids(ac) |->
                   RMul(st.componentPercentages[c], normalizationFactor)]
    IN  IF RPos(totalPercentage)
              /\ RGt(RAbs(RSub(totalPercentage, Hundred)), <<1, 100>>)
        THEN [st EXCEPT
                 !.componentPercentages = pct,
                 !.componentMass =
                     [c \in Ids(ac) |-> RMul(st.solidFlow, Pct(pct[c]))]]
        ELSE st

normalizeStreamCompositions(ss, ac) ==
    [i \in DOMAIN ss |-> NormalizeStream(ss[i], ac)]

-----------------------------------------------------------------------------
(* calculateComponentErrors, calculateGlobalError, checkConvergence
   (lines 751-816) *)

\* totalInput > 0 ? |totalInput - totalOutput| / totalInput * 100 : 0
ErrorPercent(tin, tout) ==
    IF RPos(tin) THEN RMul(RDiv(RAbs(RSub(tin, tout)), tin), Hundred) ELSE Zero

calculateComponentErrors(ss, fls, ac) ==
    [c \in Ids(ac) |->
        ErrorPercent(TotalMass(ss, InputIndices(fls), c),
                     TotalMass(ss, OutputIndices(fls), c))]

calculateGlobalError(ss, fls) ==
    ErrorPercent(TotalFlow(ss, InputIndices(fls)), TotalFlow(ss, OutputIndices(fls)))

\* a convergence test on the bulk flow error instead of the component errors
checkConvergenceOnFlow(ss, fls, ac, tol) ==
    LET maxError == calculateGlobalError(ss, fls)
    IN  [converged |-> RLt(maxError, tol), maxError |-> maxError]

\* Math.max(...Object.values(errors), 0)
checkConvergence(ss, fls, ac, tol) ==
    LET errors == calculateComponentErrors(ss, fls, ac)
        maxError == RMaxOf(errors, Ids(ac))
    IN  [converged |-> RLt(maxError, tol), maxError |-> maxError]

-----------------------------------------------------------------------------
(* evaluateCoherence (lines 819-863). A finding is modelled by what its text
   states: its severity word, the 1-based stream number, the check and the
   component; the success marker is the one entry without a severity word. *)

Finding(severity, index, check, component) ==
    [severity |-> severity, stream |-> index, check |-> check,
     component |-> component]

SuccessMarker == Finding("OK", 0, "coherent", None)

\* the two range tests on each active component, in component order
RECURSIVE GradeFindings(_, _, _, _)
GradeFindings(stream, index, ac, k) ==
    IF k > Len(ac) THEN <<>>
    ELSE LET percentage == Get(stream.componentPercentages, ac[k].id)
         IN  (IF RLt(percentage, Zero)
              THEN <<Finding("ERROR", index, "negative grade", ac[k].id)>>
              ELSE <<>>)
             \o (IF RGt(percentage, Hundred)
                 THEN <<Finding("ERROR", index, "impossible grade", ac[k].id)>>
                 ELSE <<>>)
             \o GradeFindings(stream, index, ac, k + 1)

RECURSIVE CoherenceTotal(_, _, _)
CoherenceTotal(stream, ac, k) ==
    IF k > Len(ac) THEN Zero
    ELSE RAdd(Get(stream.componentPercentages, ac[k].id),
              CoherenceTotal(stream, ac, k + 1))

\* a report that never tests the density
StreamFindingsWithoutDensity(stream, index, ac) ==
    GradeFindings(stream, index, ac, 1)
        \o (IF RGt(RAbs(RSub(CoherenceTotal(stream, ac, 1), Hundred)), <<1, 10>>)
            THEN <<Finding("WARNING", index, "total composition", None)>>
            ELSE <<>>)
        \o (IF RLt(stream.solidPercent, Zero) \/ RGt(stream.solidPercent, Hundred)
            THEN <<Finding("ERROR", index, "solid percentage", None)>>
            ELSE <<>>)

\* the body of streams.forEach for one stream
StreamFindings(stream, index, ac) ==
    GradeFindings(stream, index, ac, 1)
        \o (IF RGt(RAbs(RSub(CoherenceTotal(stream, ac, 1), Hundred)), <<1, 10>>)
            THEN <<Finding("WARNING", index, "total composition", None)>>
            ELSE <<>>)
        \o (IF RLt(stream.solidPercent, Zero) \/ RGt(stream.solidPercent, Hundred)
            THEN <<Finding("ERROR", index, "solid percentage", None)>>
            ELSE <<>>)
        \o (IF RLe(stream.density, Zero)
            THEN <<Finding("ERROR", index, "density", None)>>
            ELSE <<>>)

RECURSIVE CoherenceReport(_, _, _)
CoherenceReport(ss, ac, i) ==
    IF i > Len(ss) THEN <<>>
    ELSE StreamFindings(ss[i], i, ac) \o CoherenceReport(ss, ac, i + 1)

evaluateCoherence(ss, eqs, ac) ==
    LET report == CoherenceReport(ss, ac, 1)
    IN  IF Len(report) = 0 THEN <<SuccessMarker>> ELSE report

\* coherenceReport.filter(r => r.includes('ERROR') || r.includes('WARNING'))
CoherenceIssues(report) ==
    SelectSeq(report, LAMBDA r : r.severity \in {"ERROR", "WARNING"})

-----------------------------------------------------------------------------
(* solveIterativeMassBalance (lines 284-389), one action per step of the
   loop body *)

\* Math.max(...Object.values(componentErrors)): -Infinity for no component
MaxError(errors, ids) ==
    [negInfinity |-> ids = {}, value |-> RMaxOf(errors, ids)]

\* a first step that stores the propagated records in the caller's array
PropagateInPlace ==
    /\ pc = "start"
    /\ flowLines' = propagateStreamData(flowLines, mineralComponents)
    /\ propagatedFlowLines' = flowLines'
    /\ streams' = [i \in DOMAIN propagatedFlowLines' |->
                      convertToDetailedStream(propagatedFlowLines'[i],
                                              ActiveComponents(mineralComponents))]
    /\ prevStreams' = streams'
    /\ iteration' = 0
    /\ converged' = FALSE
    /\ pc' = "loop"
    /\ UNCHANGED <<equipments, mineralComponents, maxIterations,
                   tolerance, checkLog, iterativeResult, call>>

Propagate ==
    /\ pc = "start"
    /\ propagatedFlowLines' = propagateStreamData(flowLines, mineralComponents)
    /\ streams' = [i \in DOMAIN propagatedFlowLines' |->
                      convertToDetailedStream(propagatedFlowLines'[i],
                                              ActiveComponents(mineralComponents))]
    /\ prevStreams' = streams'
    /\ iteration' = 0
    /\ converged' = FALSE
    /\ pc' = "loop"
    /\ UNCHANGED <<equipments, flowLines, mineralComponents, maxIterations,
                   tolerance, checkLog, iterativeResult, call>>

\* a loop condition that looks at the iteration cap only
LoopRunsToCap == iteration < maxIterations

LoopRuns == ~converged /\ iteration < maxIterations

Step(next, newStreams) ==
    /\ prevStreams' = streams
    /\ streams' = newStreams
    /\ pc' = next
    /\ UNCHANGED <<equipments, flowLines, mineralComponents, maxIterations,
                   tolerance, propagatedFlowLines, converged, checkLog,
                   iterativeResult, call>>

Closure ==
    /\ pc = "loop"
    /\ LoopRuns
    /\ iteration' = iteration + 1
    /\ Step("transfer",
            applyMassBalanceClosure(streams, propagatedFlowLines,
                                    ActiveComponents(mineralComponents)))

Transfer ==
    /\ pc = "transfer"
    /\ Step("global",
            TransferAll(streams, propagatedFlowLines, equipments, 1,
                        ActiveComponents(mineralComponents)))
    /\ UNCHANGED iteration

GlobalClosure ==
    /\ pc = "global"
    /\ Step("normalize",
            applyGlobalMassBalanceWithClosure(streams, propagatedFlowLines,
                                              ActiveComponents(mineralComponents)))
    /\ UNCHANGED iteration

Normalize ==
    /\ pc = "normalize"
    /\ Step("check",
            normalizeStreamCompositions(streams,
                                        ActiveComponents(mineralComponents)))
    /\ UNCHANGED iteration

\* a test made on the streams as they were before normalisation
CheckBeforeNormalize ==
    /\ pc = "check"
    /\ LET convergenceCheck ==
               checkConvergence(prevStreams, propagatedFlowLines,
                                ActiveComponents(mineralComponents), tolerance)
       IN  /\ converged' = convergenceCheck.converged
           /\ checkLog' = Append(checkLog, convergenceCheck.converged)
    /\ pc' = "loop"
    /\ UNCHANGED <<equipments, flowLines, mineralComponents, maxIterations,
                   tolerance, propagatedFlowLines, streams, prevStreams,
                   iteration, iterativeResult, call>>

Check ==
    /\ pc = "check"
    /\ LET convergenceCheck ==
               checkConvergence(streams, propagatedFlowLines,
                                ActiveComponents(mineralComponents), tolerance)
       IN  /\ converged' = convergenceCheck.converged
           /\ checkLog' = Append(checkLog, convergenceCheck.converged)
    /\ pc' = "loop"
    /\ UNCHANGED <<equipments, flowLines, mineralComponents, maxIterations,
                   tolerance, propagatedFlowLines, streams, prevStreams,
                   iteration, iterativeResult, call>>

Finish ==
    /\ pc = "loop"
    /\ ~LoopRuns
    /\ LET ac == ActiveComponents(mineralComponents)
           errors == calculateComponentErrors(streams, propagatedFlowLines, ac)
       IN  iterativeResult' =
               [converged |-> converged,
                iterations |-> iteration,
                globalError |->
                    IF Len(streams) > 0
                    THEN calculateGlobalError(streams, propagatedFlowLines)
                    ELSE Zero,
                componentErrors |-> errors,
                maxError |-> MaxError(errors, Ids(ac)),
                coherenceIssues |->
                    CoherenceIssues(evaluateCoherence(streams, equipments, ac))]
    /\ pc' = "done"
    /\ UNCHANGED <<equipments, flowLines, mineralComponents, maxIterations,
                   tolerance, propagatedFlowLines, streams, prevStreams,
                   iteration, converged, checkLog, call>>

-----------------------------------------------------------------------------
(* Inputs: flow sheets in the shapes the application builds (the example
   circuits of lines 4095-4241 and 4284-4508, the new-line defaults of
   lines 2757-2770) *)

MaxIterationsBound == 3          \* maxIterations ranges over 0..MaxIterationsBound

\* the component library (lines 2284-2390): fe and sio2 active, p inactive
Comp(id, active, grade) == [id |-> id, isActive |-> active, defaultGrade |-> grade]
Fe == Comp("fe", TRUE, Int2R(35))
SiO2 == Comp("sio2", TRUE, Int2R(45))
Phosphorus == Comp("p", FALSE, <<4, 5>>)

\* one, two and no active components
ComponentLists == { <<Fe>>, <<Fe, Phosphorus, SiO2>>, <<Phosphorus>> }

Data(flow, sp, dens, size, comps, grades) ==
    [flowRate |-> flow, solidPercent |-> sp, density |-> dens,
     particleSize |-> size, components |-> comps, componentGrades |-> grades]

\* the composition of the example circuits: fe 35, sio2 45, al2o3 12
OreGrades ==
    Grades([c \in {"fe", "sio2", "al2o3"} |->
               IF c = "fe" THEN Int2R(35) ELSE IF c = "sio2" THEN Int2R(45) ELSE Int2R(12)])
FeOnly == Grades([c \in {"fe"} |-> Int2R(35)])
OreComps == Comps(<<"fe", "sio2", "al2o3">>)

\* a line as the canvas creates it: every number 0, no components, no grades
NewLine == Data(Zero, Zero, Zero, Zero, Comps(<<>>), Grades(EmptyMap))
\* a line whose records carry no components / componentGrades field
BareLine == Data(Zero, Zero, Zero, Zero, NoComps, NoGrades)
Ore(flow, sp) == Data(flow, sp, DefaultDensity, Int2R(2000), OreComps, OreGrades)
Assay(flow, sp) == Data(flow, sp, DefaultDensity, Int2R(2000), NoComps, FeOnly)
\* the process-water line of the mixer example (lines 4195-4215)
Water == Data(Int2R(200), Zero, Int2R(1), Zero, Comps(<<>>), Grades(EmptyMap))

Line(id, from, to, d) ==
    [id |-> id, fromEquipment |-> from, toEquipment |-> to,
     flowRate |-> d.flowRate, solidPercent |-> d.solidPercent,
     density |-> d.density, particleSize |-> d.particleSize,
     components |-> d.components, componentGrades |-> d.componentGrades]

\* configured names the optional numeric fields that were given a value; the
\* code reads the numbers only (a || b) and cannot tell 0 from not configured
NoParameters ==
    [numberOfOutputs |-> 0, splits |-> NoSplits, recovery |-> Zero,
     components |-> EmptyMap, targetSize |-> Zero, configured |-> {}]

Equipment(id, type, parameters) == [id |-> id, type |-> type, parameters |-> parameters]

Crusher(id) == Equipment(id, "britador", NoParameters)
Mill(id) ==
    Equipment(id, "moinho",
              [NoParameters EXCEPT !.targetSize = Int2R(106),
                                   !.configured = {"targetSize"}])
Mixer(id, n, splits) ==
    Equipment(id, "mixer",
              [NoParameters EXCEPT !.numberOfOutputs = n, !.splits = splits])
Rougher(id) ==
    Equipment(id, "rougher",
              [NoParameters EXCEPT
                  !.recovery = Int2R(88),
                  !.configured = {"recovery"},
                  !.components = [c \in {"fe", "sio2"} |->
                                     IF c = "fe" THEN Int2R(88) ELSE Int2R(12)]])
Cleaner(id) == Equipment(id, "cleaner", NoParameters)

\* a stream of solids that carry none of the tracked components
Barren ==
    Data(Int2R(1000), Int2R(70), DefaultDensity, Int2R(2000), OreComps,
         Grades([c \in {"fe", "sio2", "al2o3"} |-> Zero]))

FeedData ==
    { Ore(Int2R(1000), Int2R(70)), Assay(Int2R(1000), Int2R(70)), Water, Barren }
ProductData ==
    { NewLine, BareLine, Ore(Int2R(500), Int2R(70)), Ore(Int2R(1000), Int2R(50)) }

\* feed -> E1 -> product, in both array orders, with every equipment list
SingleUnit ==
    { [equipments |-> eqs, flowLines |-> fls] :
        eqs \in { <<>>, <<Crusher("E1")>>, <<Rougher("E1")>>,
                  <<Mixer("E1", 1, NoSplits)>>, <<Mill("E9")>>,
                  <<Mill("E9"), Crusher("E1")>> },
        fls \in UNION { { << Line("F", None, "E1", f), Line("P", "E1", None, p) >>,
                          << Line("P", "E1", None, p), Line("F", None, "E1", f) >> } :
                        f \in FeedData, p \in ProductData } }

\* feed -> rougher -> concentrate + tailing
Flotation ==
    { [equipments |-> <<Rougher("E1")>>,
       flowLines |-> << Line("F", None, "E1", Ore(Int2R(1000), Int2R(70))),
                        Line("C", "E1", None, c), Line("T", "E1", None, t) >>] :
        c \in { NewLine, Ore(Int2R(200), Int2R(65)) },
        t \in { NewLine, Ore(Int2R(300), Int2R(35)) } }

\* two feeds -> mixer -> product(s)
Mixing ==
    { [equipments |-> <<m>>,
       flowLines |-> << Line("F1", None, "E1", Ore(Int2R(100), Int2R(70))),
                        Line("F2", None, "E1", f2), Line("P", "E1", None, NewLine) >>] :
        m \in { Mixer("E1", 1, NoSplits), Mixer("E1", 0, NoSplits),
                Mixer("E1", 1, Splits(<<Int2R(100)>>)) },
        f2 \in { Ore(Int2R(200), Int2R(50)), Water } }

\* feed -> crusher -> mill -> product, the equipment list in both orders
Chain ==
    { [equipments |-> eqs,
       flowLines |-> << Line("F", None, "E1", Ore(Int2R(1000), Int2R(70))),
                        Line("M", "E1", "E2", m), Line("P", "E2", None, NewLine) >>] :
        eqs \in { <<Crusher("E1"), Mill("E2")>>, <<Mill("E2"), Crusher("E1")>> },
        m \in { NewLine, Ore(Int2R(800), Int2R(70)) } }

\* the mixer example of lines 4095-4241: no line leaves the circuit and the
\* only line entering it is process water
MixerExample ==
    { [equipments |-> <<Crusher("EQ1"), Equipment("EQ2", "moinho", NoParameters),
                        Mixer("EQ3", 1, NoSplits),
                        Equipment("EQ4", "rougher", NoParameters)>>,
       flowLines |->
           << Line("FL1", "EQ1", "EQ2", Ore(Int2R(800), Int2R(70))),
              Line("FL2", "EQ2", "EQ3",
                   Data(Int2R(750), Int2R(35), DefaultDensity, Int2R(150),
                        OreComps, OreGrades)),
              Line("FL3", None, "EQ3", Water),
              Line("FL4", "EQ3", "EQ4",
                   Data(Int2R(950), Int2R(28), <<11, 5>>, Int2R(150),
                        OreComps, OreGrades)) >>] }

\* a line connected to nothing next to a feed and a product, the product
\* new or carrying data of its own
Dangling ==
    { [equipments |-> <<Crusher("E1")>>,
       flowLines |-> << Line("D", None, None, d),
                        Line("F", None, "E1", Ore(Int2R(1000), Int2R(70))),
                        Line("P", "E1", None, p) >>] :
        d \in { NewLine, Ore(Int2R(500), Int2R(70)) },
        p \in { NewLine, Ore(Int2R(300), Int2R(35)) } }
      \cup
    { [equipments |-> <<Crusher("E1")>>,
       flowLines |-> << Line("D", None, None, Water),
                        Line("F", None, "E1", Water),
                        Line("P", "E1", None, Ore(Int2R(300), Int2R(35))) >>] }

FlowSheets == SingleUnit \cup Flotation \cup Mixing \cup Chain \cup MixerExample
                  \cup Dangling

Tolerances == { <<1, 1000>> }    \* the default, 0.001 %

NoResult ==
    [converged |-> FALSE, iterations |-> 0, globalError |-> Zero,
     componentErrors |-> EmptyMap, maxError |-> MaxError(EmptyMap, {}),
     coherenceIssues |-> <<>>]
NoCall == [arg |-> <<>>, result |-> <<>>]

Init ==
    /\ \E fs \in FlowSheets :
          /\ equipments = fs.equipments
          /\ flowLines = fs.flowLines
    /\ mineralComponents \in ComponentLists
    /\ maxIterations \in 0..MaxIterationsBound
    /\ tolerance \in Tolerances
    /\ pc = "start"
    /\ propagatedFlowLines = <<>>
    /\ streams = <<>>
    /\ prevStreams = <<>>
    /\ iteration = 0
    /\ converged = FALSE
    /\ checkLog = <<>>
    /\ iterativeResult = NoResult
    /\ call = NoCall

Next ==
    \/ Propagate
    \/ Closure
    \/ Transfer
    \/ GlobalClosure
    \/ Normalize
    \/ Check
    \/ Finish

Spec == Init /\ [][Next]_vars

-----------------------------------------------------------------------------
(* propagateStreamData called on its own: once on an arbitrary flow-line
   array, then once more on the array it returned *)

MaxLines == 2                    \* flow-line arrays of 1..MaxLines lines

\* a line that lists its components but has no grades and no flow yet
ListedLine == Data(Zero, Int2R(50), Zero, Int2R(300), OreComps, Grades(EmptyMap))
\* an assayed line (60 % fe) whose flow rate was not entered
Unmetered ==
    Data(Zero, Zero, DefaultDensity, Zero, NoComps,
         Grades([c \in {"fe"} |-> Int2R(60)]))

LineData ==
    { NewLine, BareLine, ListedLine, Unmetered, Ore(Int2R(1000), Int2R(70)),
      Assay(Int2R(400), Int2R(60)) }

\* fromEquipment / toEquipment of a feed, a product and an internal line
Endpoints == { <<None, "E1">>, <<"E1", None>>, <<"E1", "E2">> }

LineIds == <<"L1", "L2", "L3", "L4">>

LineArrays ==
    UNION { { [i \in 1..n |-> Line(LineIds[i], e[i][1], e[i][2], d[i])] :
                e \in [1..n -> Endpoints], d \in [1..n -> LineData] } :
            n \in 1..MaxLines }

InitPropagate ==
    /\ flowLines \in LineArrays
    /\ mineralComponents \in ComponentLists
    /\ pc = "call"
    /\ equipments = <<>>
    /\ maxIterations = 0
    /\ tolerance = Zero
    /\ propagatedFlowLines = <<>>
    /\ streams = <<>>
    /\ prevStreams = <<>>
    /\ iteration = 0
    /\ converged = FALSE
    /\ checkLog = <<>>
    /\ iterativeResult = NoResult
    /\ call = NoCall

PropagateCall ==
    /\ pc = "call"
    /\ call' = [arg |-> ArgumentAfter(flowLines, mineralComponents),
                result |-> propagateStreamData(flowLines, mineralComponents)]
    /\ pc' = "returned"
    /\ UNCHANGED <<equipments, flowLines, mineralComponents, maxIterations,
                   tolerance, propagatedFlowLines, streams, prevStreams,
                   iteration, converged, checkLog, iterativeResult>>

PropagateAgain ==
    /\ pc = "returned"
    /\ propagatedFlowLines' = call.result
    /\ call' = [arg |-> ArgumentAfter(call.result, mineralComponents),
                result |-> propagateStreamData(call.result, mineralComponents)]
    /\ pc' = "returned again"
    /\ UNCHANGED <<equipments, flowLines, mineralComponents, maxIterations,
                   tolerance, streams, prevStreams, iteration, converged,
                   checkLog, iterativeResult>>

NextPropagate ==
    \/ PropagateCall
    \/ PropagateAgain

SpecPropagate == InitPropagate /\ [][NextPropagate]_vars

-----------------------------------------------------------------------------
(* calculateEquipmentBalanceWithClosure called on its own *)

MaxInputs == 2                   \* 0..MaxInputs input streams

StreamData ==
    { Ore(Int2R(100), Int2R(70)), Ore(Int2R(200), Int2R(50)),
      Assay(Int2R(200), Int2R(60)), Water }

TransferEquipments ==
    { Crusher("E1"), Mill("E1"), Rougher("E1"), Cleaner("E1"),
      Mixer("E1", 0, NoSplits), Mixer("E1", 1, NoSplits),
      Mixer("E1", 1, Splits(<<Int2R(100)>>)), Mixer("E1", 2, NoSplits),
      Mixer("E1", 2, Splits(<<Int2R(30), Int2R(70)>>)),
      Mixer("E1", 2, Splits(<<Int2R(100), Zero>>)) }

\* recovery settings of a flotation cell, in percent
Recoveries == { Zero, Int2R(50), Int2R(100) }

\* a cell with the scalar recovery r configured and no per-component entry
ScalarCell(type, r) ==
    Equipment("E1", type,
              [NoParameters EXCEPT !.recovery = r, !.configured = {"recovery"}])

\* a cell with recovery r configured for fe, over the scalar recovery 88 or
\* over no scalar recovery
ComponentCell(type, r, scalar) ==
    Equipment("E1", type,
              [NoParameters EXCEPT
                  !.recovery = scalar,
                  !.configured = IF RIsZero(scalar) THEN {} ELSE {"recovery"},
                  !.components = [c \in {"fe"} |-> r]])

FlotationCells ==
    { ScalarCell(t, r) : t \in {"rougher", "recleaner"}, r \in Recoveries }
        \cup { ComponentCell("cleaner", r, sc) :
                  r \in Recoveries, sc \in {Zero, Int2R(88)} }

InitTransfer ==
    /\ mineralComponents \in ComponentLists
    /\ \E eq \in TransferEquipments \cup FlotationCells : equipments = <<eq>>
    /\ \E n \in 0..MaxInputs :
          \E d \in [1..n -> StreamData] :
              streams = [k \in 1..n |->
                            convertToDetailedStream(
                                Line(LineIds[k], None, "E1", d[k]),
                                ActiveComponents(mineralComponents))]
    /\ pc = "call"
    /\ flowLines = <<>>
    /\ maxIterations = 0
    /\ tolerance = Zero
    /\ propagatedFlowLines = <<>>
    /\ prevStreams = <<>>
    /\ iteration = 0
    /\ converged = FALSE
    /\ checkLog = <<>>
    /\ iterativeResult = NoResult
    /\ call = NoCall

TransferCall ==
    /\ pc = "call"
    /\ call' = [arg |-> streams,
                result |-> calculateEquipmentBalanceWithClosure(
                               equipments[1], streams,
                               ActiveComponents(mineralComponents))]
    /\ pc' = "returned"
    /\ UNCHANGED <<equipments, flowLines, mineralComponents, maxIterations,
                   tolerance, propagatedFlowLines, streams, prevStreams,
                   iteration, converged, checkLog, iterativeResult>>

SpecTransfer == InitTransfer /\ [][TransferCall]_vars

-----------------------------------------------------------------------------
(* evaluateCoherence called on its own *)

MaxStreams == 2                  \* 0..MaxStreams streams

\* a stream with the given fe and sio2 percentages, solidPercent and density
Probe(fe, sio2, sp, d) ==
    [convertToDetailedStream(Line("S", None, None, Ore(Int2R(100), Int2R(70))),
                             <<Fe, SiO2>>)
        EXCEPT !.componentPercentages =
                   [c \in {"fe", "sio2"} |-> IF c = "fe" THEN fe ELSE sio2],
               !.solidPercent = sp,
               !.density = d]

\* every combination of a grade below, inside and above the range with a
\* solidPercent on or outside the range and a density on or inside it, and
\* streams whose total is on and just outside the 0.1 band
ProbeStreams ==
    { Probe(fe, Int2R(60), sp, d) :
        fe \in {Int2R(-5), Int2R(40), Int2R(120)},
        sp \in {Zero, Int2R(101)},
        d \in {Zero, DefaultDensity} }
      \cup { Probe(Int2R(40), s, Hundred, DefaultDensity) :
                s \in {<<601, 10>>, <<301, 5>>, <<599, 10>>} }
      \cup { Probe(Hundred, Zero, Int2R(-1), Int2R(-1)),
             Probe(Hundred, Zero, Int2R(50), DefaultDensity) }

InitCoherence ==
    /\ mineralComponents \in ComponentLists
    /\ \E n \in 0..MaxStreams : streams \in [1..n -> ProbeStreams]
    /\ pc = "call"
    /\ equipments = <<>>
    /\ flowLines = <<>>
    /\ maxIterations = 0
    /\ tolerance = Zero
    /\ propagatedFlowLines = <<>>
    /\ prevStreams = <<>>
    /\ iteration = 0
    /\ converged = FALSE
    /\ checkLog = <<>>
    /\ iterativeResult = NoResult
    /\ call = NoCall

\* the function only reads its arguments: after the call the caller's array
\* is the array it passed
CoherenceCall ==
    /\ pc = "call"
    /\ call' = [arg |-> streams,
                result |-> evaluateCoherence(streams, equipments,
                                             ActiveComponents(mineralComponents))]
    /\ pc' = "returned"
    /\ UNCHANGED <<equipments, flowLines, mineralComponents, maxIterations,
                   tolerance, propagatedFlowLines, streams, prevStreams,
                   iteration, converged, checkLog, iterativeResult>>

SpecCoherence == InitCoherence /\ [][CoherenceCall]_vars

-----------------------------------------------------------------------------
(* runSimulation (lines 1514-1632) and runLegacySimulation (lines 1635-1703).
   A SimulationResult is modelled by its equipment, inputs and outputs; the
   efficiency, powerConsumption and warnings entries are computed from them
   and from parameters and written nowhere else. An equipment's id stands
   for its name. *)

DefaultMaxIterations == 50
LegacyParticleSize == 10000
LegacyReduction == 5

\* an optional attachment of the returned array
Unset == [has |-> FALSE, value |-> <<>>]
Attached(v) == [has |-> TRUE, value |-> v]

\* the mineralComponents argument: absent, or a list
NoList == [has |-> FALSE, list |-> <<>>]
Listed(l) == [has |-> TRUE, list |-> l]

\* a dispatch that looks at the list only, not at the isActive flags
LegacyWithoutList(mc) == ~mc.has \/ Len(mc.list) = 0

\* the two early returns of runSimulation (lines 1522-1531)
UsesLegacy(mc) ==
    \/ ~mc.has
    \/ Len(mc.list) = 0
    \/ Len(ActiveComponents(mc.list)) = 0

\* lines 1639-1648
FeedStream(config) ==
    [flowRate |-> OrNum(config.feedRate, Int2R(DefaultFlow)),
     solidPercent |-> OrNum(config.solidPercent, Int2R(DefaultSolidPercent)),
     density |-> OrNum(config.oreDensity, DefaultDensity),
     particleSize |-> Int2R(LegacyParticleSize)]

LegacyOutput(equipment, feedStream) ==
    IF equipment.type = "britador"
    THEN [feedStream EXCEPT
             !.particleSize = RDiv(feedStream.particleSize, Int2R(LegacyReduction)),
             !.flowRate = RMul(feedStream.flowRate, <<19, 20>>)]
    ELSE IF equipment.type = "moinho"
    THEN [feedStream EXCEPT !.particleSize = Int2R(DefaultParticleSize)]
    ELSE feedStream

runLegacySimulation(eqs, fls, config) ==
    [results |-> [k \in DOMAIN eqs |->
                     [equipment |-> eqs[k].id,
                      inputs |-> <<FeedStream(config)>>,
                      outputs |-> <<LegacyOutput(eqs[k], FeedStream(config))>>]],
     iterativeResult |-> Unset,
     detailedStreams |-> Unset,
     coherenceReport |-> Unset]

\* the streams of the lines leaving an equipment (lines 1544-1557)
OutputStreams(ss, fls, equipment) ==
    LET outIdx == LinesOutOf(fls, equipment.id)
    IN  [k \in DOMAIN outIdx |-> ss[FindIndex(fls, fls[outIdx[k]].id)]]

\* lines 1537-1631, on what the solver returned
IterativeResults(eqs, fls, ss, result, report) ==
    [results |-> [k \in DOMAIN eqs |->
                     [equipment |-> eqs[k].id,
                      inputs |-> InputStreams(ss, fls, eqs[k]),
                      outputs |-> OutputStreams(ss, fls, eqs[k])]],
     iterativeResult |-> Attached(result),
     detailedStreams |-> Attached(ss),
     coherenceReport |-> Attached(report)]

NoConfig == [feedRate |-> Zero, solidPercent |-> Zero, oreDensity |-> Zero]
Configs ==
    { NoConfig,
      [feedRate |-> Int2R(500), solidPercent |-> Int2R(60), oreDensity |-> Int2R(3)] }

ComponentArguments ==
    { NoList, Listed(<<>>) } \cup { Listed(l) : l \in ComponentLists }

InitSimulation ==
    /\ \E fs \in FlowSheets :
          /\ equipments = fs.equipments
          /\ flowLines = fs.flowLines
    /\ \E mc \in ComponentArguments, config \in Configs :
          call = [arg |-> [mineralComponents |-> mc, config |-> config],
                  result |-> <<>>]
    /\ pc = "run"
    /\ mineralComponents = <<>>
    /\ maxIterations = 0
    /\ tolerance = Zero
    /\ propagatedFlowLines = <<>>
    /\ streams = <<>>
    /\ prevStreams = <<>>
    /\ iteration = 0
    /\ converged = FALSE
    /\ checkLog = <<>>
    /\ iterativeResult = NoResult

\* lines 1522-1531: the legacy simulation is returned
RunLegacy ==
    /\ pc = "run"
    /\ UsesLegacy(call.arg.mineralComponents)
    /\ call' = [call EXCEPT
                   !.result = runLegacySimulation(equipments, flowLines,
                                                  call.arg.config)]
    /\ pc' = "simulated"
    /\ UNCHANGED <<equipments, flowLines, mineralComponents, maxIterations,
                   tolerance, propagatedFlowLines, streams, prevStreams,
                   iteration, converged, checkLog, iterativeResult>>

\* line 1534: the solver is entered with the active components and its
\* default maxIterations and tolerance
RunIterative ==
    /\ pc = "run"
    /\ ~UsesLegacy(call.arg.mineralComponents)
    /\ mineralComponents' = ActiveComponents(call.arg.mineralComponents.list)
    /\ maxIterations' = DefaultMaxIterations
    /\ tolerance' = <<1, 1000>>
    /\ pc' = "start"
    /\ UNCHANGED <<equipments, flowLines, propagatedFlowLines, streams,
                   prevStreams, iteration, converged, checkLog,
                   iterativeResult, call>>

\* lines 1537-1631: the solver has returned; its coherenceReport is
\* evaluateCoherence of the streams it returned (line 372)
ConvertResults ==
    /\ pc = "done"
    /\ call' = [call EXCEPT
                   !.result =
                       IterativeResults(
                           equipments, flowLines, streams, iterativeResult,
                           evaluateCoherence(streams, equipments,
                                             ActiveComponents(mineralComponents)))]
    /\ pc' = "simulated"
    /\ UNCHANGED <<equipments, flowLines, mineralComponents, maxIterations,
                   tolerance, propagatedFlowLines, streams, prevStreams,
                   iteration, converged, checkLog, iterativeResult>>

NextSimulation ==
    \/ RunLegacy
    \/ RunIterative
    \/ Propagate
    \/ Closure
    \/ Transfer
    \/ GlobalClosure
    \/ Normalize
    \/ Check
    \/ Finish
    \/ ConvertResults

SpecSimulation == InitSimulation /\ [][NextSimulation]_vars

-----------------------------------------------------------------------------
(* Properties of solveIterativeMassBalance, checked under Spec.  The totals
   are recomputed here from flowLines and the returned streams. *)

Returned == pc = "done"
Active == Ids(ActiveComponents(mineralComponents))

InputClass == {i \in DOMAIN flowLines : flowLines[i].fromEquipment = None}
OutputClass == {i \in DOMAIN flowLines : flowLines[i].toEquipment = None}

MassIn(c) == RSum([i \in DOMAIN streams |-> streams[i].componentMass[c]], InputClass)
MassOut(c) == RSum([i \in DOMAIN streams |-> streams[i].componentMass[c]], OutputClass)
FlowIn == RSum([i \in DOMAIN streams |-> streams[i].flowRate], InputClass)
FlowOut == RSum([i \in DOMAIN streams |-> streams[i].flowRate], OutputClass)

\* |in - out| / in * 100 for in > 0
RelativeError(tin, tout) == RMul(RDiv(RAbs(RSub(tin, tout)), tin), Hundred)

\* C1: whenever the solver returns converged = true, every active component
\* with positive input-class mass in the returned streams has
\* |input mass - output mass| / input mass * 100 strictly below the tolerance.
C1_ComponentClosure ==
    (Returned /\ iterativeResult.converged) =>
        \A c \in Active :
            RPos(MassIn(c)) => RLt(RelativeError(MassIn(c), MassOut(c)), tolerance)

\* a converged run that needed a second iteration, on a circuit with a product
\* line and positive input mass of some component
C1_Witness ==
    /\ Returned /\ iterativeResult.converged
    /\ iterativeResult.iterations >= 2
    /\ OutputClass # {}
    /\ \E c \in Active : RPos(MassIn(c)) /\ RPos(MassOut(c))

\* C2: whenever the solver returns converged = true, the bulk flow error of the
\* returned streams, reported as globalError, is strictly below the tolerance.
C2_FlowClosure ==
    (Returned /\ iterativeResult.converged) =>
        /\ RLt(iterativeResult.globalError, tolerance)
        /\ RPos(FlowIn) => RLt(RelativeError(FlowIn, FlowOut), tolerance)

PercentageSum(st) == RSum(st.componentPercentages, Active)
NearHundred(x) == RLe(RAbs(RSub(x, Hundred)), <<1, 10>>)
AllZero(st) == \A c \in Active : RIsZero(st.componentPercentages[c])

\* C3 as stated: in a converged result every stream's active-component
\* percentages sum to within 0.1 of 100, except the streams with zero solid
\* flow, whose percentages are all 0.
C3_Original ==
    (Returned /\ iterativeResult.converged) =>
        \A i \in DOMAIN streams :
            \/ NearHundred(PercentageSum(streams[i]))
            \/ RIsZero(streams[i].solidFlow) /\ AllZero(streams[i])

\* C3 amended: in a converged result every stream's active-component
\* percentages either sum to within 0.1 of 100 or are all 0; a stream with
\* zero solid flow is of the second kind, and so is a stream whose solids
\* carry none of the active components.
C3_Normalized ==
    (Returned /\ iterativeResult.converged) =>
        \A i \in DOMAIN streams :
            /\ NearHundred(PercentageSum(streams[i])) \/ AllZero(streams[i])
            /\ RIsZero(streams[i].solidFlow) => AllZero(streams[i])

\* a converged result holding a stream whose solids carry no active component
C3_Witness ==
    /\ Returned /\ iterativeResult.converged
    /\ \E i \in DOMAIN streams :
          RPos(streams[i].solidFlow) /\ AllZero(streams[i])

\* the two terminal states of the loop: stopped at the first passing test, or
\* stopped at the cap with no test passed
StoppedConverged ==
    /\ iterativeResult.converged
    /\ iterativeResult.iterations \in 1..maxIterations
    /\ Len(checkLog) = iterativeResult.iterations
    /\ checkLog[Len(checkLog)]
    /\ \A k \in 1..(Len(checkLog) - 1) : ~checkLog[k]

StoppedExhausted ==
    /\ ~iterativeResult.converged
    /\ iterativeResult.iterations = maxIterations
    /\ Len(checkLog) = maxIterations
    /\ \A k \in 1..Len(checkLog) : ~checkLog[k]

\* the control points from which the solver takes a step: the guard of every
\* action is its control point, and the two actions at "loop" have
\* complementary guards
Running == pc \in {"start", "loop", "transfer", "global", "normalize", "check"}

\* steps left before the solver returns: decreases with every step
StepsLeft ==
    5 * (maxIterations - iteration)
        + (CASE pc = "start" -> 2
             [] pc = "loop" -> 1
             [] pc = "transfer" -> 5
             [] pc = "global" -> 4
             [] pc = "normalize" -> 3
             [] pc = "check" -> 2
             [] OTHER -> 0)

\* C4: for every input and every maxIterations >= 0 the loop terminates (a
\* step is always possible until the solver has returned, and every step
\* brings the return closer) in one of two terminal states: stopped at the
\* first iteration whose convergence test passes, with no further iteration,
\* or stopped after exactly maxIterations iterations with converged = false;
\* the solver returns the stream set it then holds.
C4_Terminates ==
    /\ [](Returned \/ Running)
    /\ [](StepsLeft >= 0 /\ iteration <= maxIterations)
    /\ [](Returned => (StoppedConverged \/ StoppedExhausted))
    /\ [][StepsLeft' < StepsLeft /\ (Returned' => streams' = streams)]_vars

\* a run that stopped at a passing second test with the cap not reached
C4_WitnessConverged ==
    /\ Returned /\ StoppedConverged
    /\ iterativeResult.iterations = 2 /\ maxIterations = 3

\* the circuits whose equipment list names an equipment no flow line references
Unreferenced ==
    \E k \in DOMAIN equipments :
        \A i \in DOMAIN flowLines :
            /\ flowLines[i].fromEquipment # equipments[k].id
            /\ flowLines[i].toEquipment # equipments[k].id

LargestError ==
    RMaxOf([c \in Active |->
               IF RPos(MassIn(c)) THEN RelativeError(MassIn(c), MassOut(c)) ELSE Zero],
           Active)

\* C5 as stated: on a circuit with unreferenced equipment the solver always
\* returns a result, and its converged flag is true exactly when the largest
\* per-component error of the returned streams is below the tolerance.
C5_Original ==
    Unreferenced =>
        /\ Returned \/ Running
        /\ Returned => (iterativeResult.converged <=> RLt(LargestError, tolerance))

\* C5 amended: on a circuit with unreferenced equipment the solver always
\* returns a result; when maxIterations >= 1 its converged flag is true exactly
\* when the largest per-component error of the returned streams is below the
\* tolerance, and when maxIterations = 0 the flag is false.
C5_UnreferencedEquipment ==
    Unreferenced =>
        /\ Returned \/ Running
        /\ (Returned /\ maxIterations >= 1) =>
               (iterativeResult.converged <=> RLt(LargestError, tolerance))
        /\ (Returned /\ maxIterations = 0) => ~iterativeResult.converged

\* a run over unreferenced equipment that returned without converging
C5_Witness ==
    /\ Unreferenced /\ Returned /\ maxIterations >= 1
    /\ ~iterativeResult.converged
    /\ ~RLt(LargestError, tolerance)

\* the circuit of one feed (flow 1000, one graded component) into an equipment
\* and one product out of it with flow 0 and no grades
MissingProductCircuit ==
    /\ Len(flowLines) = 2
    /\ \E f, p \in DOMAIN flowLines :
          /\ flowLines[f].fromEquipment = None
          /\ flowLines[f].toEquipment # None
          /\ flowLines[f].flowRate = Int2R(1000)
          /\ Cardinality(DOMAIN flowLines[f].componentGrades.map) = 1
          /\ flowLines[p].fromEquipment = flowLines[f].toEquipment
          /\ flowLines[p].toEquipment = None
          /\ RIsZero(flowLines[p].flowRate)
          /\ DOMAIN flowLines[p].componentGrades.map = {}

\* one more pass of the loop body (lines 316-357) over the streams ss
OneMoreIteration(ss) ==
    LET ac == ActiveComponents(mineralComponents)
        closed == applyMassBalanceClosure(ss, propagatedFlowLines, ac)
        transferred == TransferAll(closed, propagatedFlowLines, equipments, 1, ac)
        balanced == applyGlobalMassBalanceWithClosure(transferred,
                                                      propagatedFlowLines, ac)
    IN  normalizeStreamCompositions(balanced, ac)

\* the returned streams are what any further iteration would return again, so
\* the outcome does not depend on the iteration cap
Settled == OneMoreIteration(streams) = streams

\* C8: on the circuit with one feed (flow 1000, one graded component) and one
\* product with flow 0 and no grades, a full run returns converged = true and
\* every entry of componentErrors equal to 0.
C8_MissingProductConverges ==
    (MissingProductCircuit /\ Returned /\ maxIterations >= 1 /\ Settled) =>
        /\ iterativeResult.converged
        /\ \A c \in Active : RIsZero(iterativeResult.componentErrors[c])

\* the streams before and after the first applyMassBalanceClosure
AfterFirstClosure == pc = "transfer" /\ iteration = 1

FlowInBefore == RSum([i \in DOMAIN prevStreams |-> prevStreams[i].flowRate], InputClass)
FlowOutBefore == RSum([i \in DOMAIN prevStreams |-> prevStreams[i].flowRate], OutputClass)

\* C9: when the input-class streams sum to 1000 t/h and the populated, nonzero
\* output-class streams sum to 500 t/h, after closure the output flows sum to
\* exactly 1000, every output flow has been multiplied by the same factor
\* inputTotal / outputTotal = 2, and the input streams are unchanged.
C9_ProportionalRescale ==
    ( /\ AfterFirstClosure
      /\ FlowInBefore = Int2R(1000)
      /\ FlowOutBefore = Int2R(500)
      /\ \A i \in OutputClass : RPos(prevStreams[i].flowRate) ) =>
        /\ FlowOut = Int2R(1000)
        /\ \A i \in OutputClass :
              streams[i].flowRate =
                  RMul(prevStreams[i].flowRate, RDiv(FlowInBefore, FlowOutBefore))
        /\ \A i \in InputClass \ OutputClass :
              streams[i].flowRate = prevStreams[i].flowRate

-----------------------------------------------------------------------------
(* Properties of propagateStreamData, checked under SpecPropagate *)

\* C6: propagateStreamData is idempotent: run on its own result with the same
\* component list it returns lines whose every attribute equals that result's.
C6_Idempotent ==
    pc = "returned again" =>
        /\ Len(call.result) = Len(call.arg)
        /\ \A i \in DOMAIN call.arg :
              /\ call.result[i].flowRate = call.arg[i].flowRate
              /\ call.result[i].solidPercent = call.arg[i].solidPercent
              /\ call.result[i].density = call.arg[i].density
              /\ call.result[i].particleSize = call.arg[i].particleSize
              /\ call.result[i].components = call.arg[i].components
              /\ call.result[i].componentGrades = call.arg[i].componentGrades

\* a second call on a result that the first call had to fill in over more
\* than one pass
C6_Witness ==
    /\ pc = "returned again"
    /\ propagatedFlowLines # flowLines
    /\ PropagatePass(flowLines, 1, ActiveComponents(mineralComponents), 0).lines
           # propagatedFlowLines
    /\ call.arg = propagatedFlowLines

\* the circuit of one feed with positive flow and grades and one product with
\* flow 0 and no grades (absent or empty), at indices f and p
FeedAndBareProduct(f, p) ==
    /\ Len(flowLines) = 2
    /\ f \in DOMAIN flowLines /\ p \in DOMAIN flowLines
    /\ flowLines[f].fromEquipment = None
    /\ flowLines[f].toEquipment # None
    /\ RPos(flowLines[f].flowRate)
    /\ DOMAIN flowLines[f].componentGrades.map # {}
    /\ flowLines[p].fromEquipment = flowLines[f].toEquipment
    /\ flowLines[p].toEquipment = None
    /\ RIsZero(flowLines[p].flowRate)
    /\ DOMAIN flowLines[p].componentGrades.map = {}

\* C7: after propagateStreamData the product's flowRate and componentGrades
\* equal the feed's, whatever the order of the two lines and whether the
\* missing grades are an absent field or an empty map.
C7_ProductGetsFeedData ==
    pc = "returned" =>
        \A f, p \in 1..2 :
            FeedAndBareProduct(f, p) =>
                /\ call.result[p].flowRate = call.result[f].flowRate
                /\ call.result[p].componentGrades = call.result[f].componentGrades
                /\ call.result[f].flowRate = flowLines[f].flowRate
                /\ call.result[f].componentGrades = flowLines[f].componentGrades

-----------------------------------------------------------------------------
(* Properties of calculateEquipmentBalanceWithClosure, checked under
   SpecTransfer *)

\* a mixer with one output port: numberOfOutputs 1 or unset, and no split
\* other than the whole flow
OneOutputMixer ==
    /\ equipments[1].type = "mixer"
    /\ equipments[1].parameters.numberOfOutputs \in {0, 1}
    /\ equipments[1].parameters.splits \in {NoSplits, Splits(<<Int2R(100)>>)}

\* C10: for a mixer with one output and any number of input streams, the
\* output flowRate is the sum of the input flow rates and, for every active
\* component, the output componentMass is the sum of the inputs' component
\* masses; without inputs there is no output stream.
C10_MixerSums ==
    (pc = "returned" /\ OneOutputMixer) =>
        IF Len(call.arg) = 0 THEN call.result = <<>>
        ELSE /\ Len(call.result) = 1
             /\ call.result[1].flowRate =
                    RSum([k \in DOMAIN call.arg |-> call.arg[k].flowRate],
                         DOMAIN call.arg)
             /\ \A c \in Active :
                    call.result[1].componentMass[c] =
                        RSum([k \in DOMAIN call.arg |-> call.arg[k].componentMass[c]],
                             DOMAIN call.arg)

\* two inputs of 100 and 200 t/h, both carrying fe, mixed into one output of
\* 300 t/h
C10_Witness ==
    /\ pc = "returned" /\ OneOutputMixer
    /\ Len(call.arg) = 2
    /\ call.arg[1].flowRate = Int2R(100)
    /\ call.arg[2].flowRate = Int2R(200)
    /\ "fe" \in Active
    /\ RPos(call.arg[1].componentMass["fe"])
    /\ RPos(call.arg[2].componentMass["fe"])
    /\ call.result[1].componentMass["fe"] =
           RAdd(call.arg[1].componentMass["fe"], call.arg[2].componentMass["fe"])
    /\ call.result[1].flowRate = Int2R(300)

\* a flotation cell, and the recovery configured on it for component c: the
\* per-component entry if there is one, else the scalar recovery if configured
IsFlotation == equipments[1].type \in {"rougher", "cleaner", "recleaner"}

HasRecovery(c) ==
    \/ c \in DOMAIN equipments[1].parameters.components
    \/ "recovery" \in equipments[1].parameters.configured

ConfiguredRecovery(c) ==
    IF c \in DOMAIN equipments[1].parameters.components
    THEN equipments[1].parameters.components[c]
    ELSE equipments[1].parameters.recovery

InputMass(c) ==
    RSum([k \in DOMAIN call.arg |-> call.arg[k].componentMass[c]], DOMAIN call.arg)

\* C11: for a flotation cell with input component mass M and a recovery R %
\* configured for component X, for every R in 0..100 (R = 0 included, per
\* component or scalar), the concentrate mass of X is M * R / 100, the tailing
\* mass is M * (1 - R / 100), and the two sum to M.
C11_FlotationRecovery ==
    (pc = "returned" /\ IsFlotation /\ Len(call.arg) > 0) =>
        \A c \in Active :
            HasRecovery(c) =>
                LET M == InputMass(c)
                    R == ConfiguredRecovery(c)
                IN  /\ call.result[1].componentMass[c] = RMul(M, Pct(R))
                    /\ call.result[2].componentMass[c] =
                           RMul(M, RSub(Int2R(1), Pct(R)))
                    /\ RAdd(call.result[1].componentMass[c],
                            call.result[2].componentMass[c]) = M

C13_FullyPopulated ==
    (pc = "returned" /\ Active # {}) =>
        \A i \in DOMAIN call.result :
            /\ ~RIsZero(call.result[i].flowRate)
            /\ call.result[i].componentGrades.has
            /\ DOMAIN call.result[i].componentGrades.map # {}

\* the equipment types of the Equipment interface, each with every parameter
\* record of the transfer inputs
EquipmentTypes == {"moinho", "britador", "rougher", "cleaner", "recleaner", "mixer"}
AnyEquipment ==
    { Equipment("E1", t, q.parameters) :
        t \in EquipmentTypes, q \in TransferEquipments \cup FlotationCells }

\* equipments of the flowsheet that no flow line enters
Unfed(e) ==
    /\ e \in DOMAIN equipments
    /\ Len(LinesInto(propagatedFlowLines, equipments[e].id)) = 0

Leaves(i, e) == propagatedFlowLines[i].fromEquipment = equipments[e].id

\* C14: for every equipment type the transfer function returns the empty list
\* when it is given no input stream, and the solver skips an equipment that
\* no flow line enters: after the transfer step every stream leaving it holds
\* exactly the values it held before the step.
C14_UnfedSkipped ==
    /\ \A eq \in AnyEquipment :
          calculateEquipmentBalanceWithClosure(
              eq, <<>>, ActiveComponents(mineralComponents)) = <<>>
    /\ pc = "global" =>
          \A e \in DOMAIN equipments : Unfed(e) =>
              \A i \in DOMAIN streams : Leaves(i, e) => streams[i] = prevStreams[i]

\* the transfer step rewrote a stream of a fed equipment and left alone the
\* stream, carrying flow, of an unfed one
C14_Witness ==
    /\ pc = "global"
    /\ streams # prevStreams
    /\ \E e \in DOMAIN equipments : \E i \in DOMAIN streams :
          /\ Unfed(e)
          /\ Leaves(i, e)
          /\ RPos(streams[i].flowRate)
          /\ streams[i] = prevStreams[i]

\* the checks a stream violates, counted from the stream's values
ActiveList == ActiveComponents(mineralComponents)
ActivePercentages(st) ==
    [k \in DOMAIN ActiveList |-> Get(st.componentPercentages, ActiveList[k].id)]
GradesInRange(st) ==
    \A k \in DOMAIN ActiveList :
        RLe(Zero, ActivePercentages(st)[k]) /\ RLe(ActivePercentages(st)[k], Hundred)
TotalNearHundred(st) ==
    RLe(RAbs(RSub(RSum(ActivePercentages(st), DOMAIN ActiveList), Hundred)),
        <<1, 10>>)
SolidInRange(st) == RLe(Zero, st.solidPercent) /\ RLe(st.solidPercent, Hundred)
DensityPositive(st) == RPos(st.density)
Violations(st) ==
    Cardinality({k \in DOMAIN ActiveList : ~RLe(Zero, ActivePercentages(st)[k])})
      + Cardinality({k \in DOMAIN ActiveList : ~RLe(ActivePercentages(st)[k], Hundred)})
      + (IF TotalNearHundred(st) THEN 0 ELSE 1)
      + (IF SolidInRange(st) THEN 0 ELSE 1)
      + (IF DensityPositive(st) THEN 0 ELSE 1)
AllCoherent ==
    \A i \in DOMAIN streams :
        /\ GradesInRange(streams[i])
        /\ TotalNearHundred(streams[i])
        /\ SolidInRange(streams[i])
        /\ DensityPositive(streams[i])

\* C16: evaluateCoherence returns the single success marker exactly when every
\* stream has every active-component percentage in [0,100], an active total
\* within 0.1 of 100, a solidPercent in [0,100] and a positive density;
\* otherwise it returns one ERROR or WARNING finding for each violated check,
\* in stream order; it never changes a stream.
C16_CoherenceReport ==
    pc = "returned" =>
        /\ call.result = <<SuccessMarker>> <=> AllCoherent
        /\ ~AllCoherent =>
              /\ \A k \in DOMAIN call.result :
                    call.result[k].severity \in {"ERROR", "WARNING"}
              /\ \A i \in DOMAIN streams :
                    Cardinality({k \in DOMAIN call.result :
                                    call.result[k].stream = i})
                        = Violations(streams[i])
              /\ \A k \in DOMAIN call.result : call.result[k].stream \in DOMAIN streams
              /\ \A j, k \in DOMAIN call.result :
                    j < k => call.result[j].stream <= call.result[k].stream
        /\ call.arg = streams

\* a report on two streams: the first violates the density check only, the
\* second is coherent
C16_Witness ==
    /\ pc = "returned"
    /\ Len(streams) = 2
    /\ Len(call.result) = 1
    /\ call.result[1].check = "density"
    /\ Violations(streams[2]) = 0

\* a call on coherent streams only
C16_WitnessSuccess ==
    /\ pc = "returned"
    /\ Len(streams) = 2
    /\ call.result = <<SuccessMarker>>

Simulated == pc = "simulated"
NoAttachment ==
    /\ ~call.result.iterativeResult.has
    /\ ~call.result.detailedStreams.has
    /\ ~call.result.coherenceReport.has
NoActiveComponent ==
    \/ ~call.arg.mineralComponents.has
    \/ \A k \in DOMAIN call.arg.mineralComponents.list :
          ~call.arg.mineralComponents.list[k].isActive

\* C15: runSimulation returns the legacy simulation, without iterativeResult,
\* detailedStreams and coherenceReport and without running the solver, exactly
\* when mineralComponents is absent, empty or has no active component;
\* otherwise it runs the solver and returns one result per equipment, in the
\* order of the equipment list, with the three attachments set to what the
\* solver returned.
C15_LegacyOrIterative ==
    Simulated =>
        /\ NoAttachment <=> NoActiveComponent
        /\ NoActiveComponent => iteration = 0 /\ streams = <<>> /\ checkLog = <<>>
        /\ ~NoActiveComponent =>
              /\ call.result.iterativeResult = Attached(iterativeResult)
              /\ call.result.detailedStreams = Attached(streams)
              /\ call.result.coherenceReport.has
              /\ Len(streams) = Len(flowLines)
              /\ iterativeResult.iterations >= 1
        /\ Len(call.result.results) = Len(equipments)
        /\ \A k \in DOMAIN equipments :
              call.result.results[k].equipment = equipments[k].id

\* an iterative run on a circuit of several equipments
C15_Witness ==
    /\ Simulated
    /\ ~NoAttachment
    /\ Len(equipments) >= 2
    /\ iterativeResult.converged

\* a legacy run for a list whose components are all inactive
C15_WitnessLegacy ==
    /\ Simulated
    /\ NoAttachment
    /\ call.arg.mineralComponents = Listed(<<Phosphorus>>)
    /\ Len(equipments) >= 2

-----------------------------------------------------------------------------
(* The two closure calls of an iteration, checked under Spec: the state after
   applyMassBalanceClosure has pc = "transfer", the state after
   applyGlobalMassBalanceWithClosure has pc = "normalize", and prevStreams
   holds the streams the call was given *)

AfterClosure == pc = "transfer"
AfterGlobalClosure == pc = "normalize"

MassInBefore(c) == TotalMass(prevStreams, InputClass, c)
MassOutBefore(c) == TotalMass(prevStreams, OutputClass, c)

\* the test under which each closure call rewrites the outputs of component c
OutputsRewritten(c) ==
    IF AfterClosure
    THEN /\ RPos(MassInBefore(c))
         /\ RGt(RAbs(RSub(MassInBefore(c), MassOutBefore(c))), <<1, 1000>>)
    ELSE GlobalForward(MassInBefore(c), MassOutBefore(c))

\* C17: in both closure calls of an iteration, when a component's input total
\* is positive and its output total is zero or off by more than the threshold,
\* every output-class stream's mass of that component becomes the input total
\* divided by the number of output-class streams, whatever it was before.
C17_EqualSplit ==
    (AfterClosure \/ AfterGlobalClosure) =>
        \A c \in Active :
            OutputsRewritten(c) =>
                \A i \in OutputClass :
                    streams[i].componentMass[c]
                        = Share(MassInBefore(c), Cardinality(OutputClass))

\* C18: input wins. In a closure call where a component's input total is
\* positive every input-class stream keeps its mass of that component, and
\* where the bulk input total is positive every input-class stream keeps its
\* flow rate; this includes a stream with neither fromEquipment nor
\* toEquipment, which is in both classes.
C18_InputWins ==
    (AfterClosure \/ AfterGlobalClosure) =>
        /\ \A c \in Active :
              RPos(MassInBefore(c)) =>
                  \A i \in InputClass :
                      streams[i].componentMass[c] = prevStreams[i].componentMass[c]
        /\ RPos(FlowInBefore) =>
              \A i \in InputClass : streams[i].flowRate = prevStreams[i].flowRate

InputMissing(c) == RIsZero(MassInBefore(c)) /\ RPos(MassOutBefore(c))
BothMissing(c) == RIsZero(MassInBefore(c)) /\ RIsZero(MassOutBefore(c))

\* C19: in a closure call, when a component's input total is zero and its
\* output total is positive, every input-class stream's mass of the component
\* becomes the output total divided by the number of input-class streams and
\* the output-class streams keep theirs; when both totals are zero no stream's
\* mass of the component changes.
C19_ReverseClosure ==
    (AfterClosure \/ AfterGlobalClosure) =>
        \A c \in Active :
            /\ InputMissing(c) =>
                  /\ \A i \in InputClass :
                        streams[i].componentMass[c]
                            = Share(MassOutBefore(c), Cardinality(InputClass))
                  /\ \A i \in OutputClass :
                        streams[i].componentMass[c] = prevStreams[i].componentMass[c]
            /\ BothMissing(c) =>
                  \A i \in DOMAIN streams :
                      streams[i].componentMass[c] = prevStreams[i].componentMass[c]

\* C19 as amended: in a closure call, when a component's input total is zero
\* and its output total is positive, every input-class stream's mass of the
\* component becomes the output total divided by the number of input-class
\* streams, and the output-class streams that are not input-class as well keep
\* theirs; when both totals are zero no stream's mass of the component changes.
C19_ReverseClosureAmended ==
    (AfterClosure \/ AfterGlobalClosure) =>
        \A c \in Active :
            /\ InputMissing(c) =>
                  /\ \A i \in InputClass :
                        streams[i].componentMass[c]
                            = Share(MassOutBefore(c), Cardinality(InputClass))
                  /\ \A i \in OutputClass \ InputClass :
                        streams[i].componentMass[c] = prevStreams[i].componentMass[c]
            /\ BothMissing(c) =>
                  \A i \in DOMAIN streams :
                      streams[i].componentMass[c] = prevStreams[i].componentMass[c]

\* a reverse closure that gave the feeds the mass found in the products
C19_Witness ==
    /\ AfterClosure \/ AfterGlobalClosure
    /\ \E c \in Active :
          /\ InputMissing(c)
          /\ \E i \in InputClass : RPos(streams[i].componentMass[c])
          /\ \E i \in OutputClass : RPos(streams[i].componentMass[c])

C19_WitnessBothMissing ==
    /\ AfterClosure \/ AfterGlobalClosure
    /\ \E c \in Active : BothMissing(c) /\ InputClass # {} /\ OutputClass # {}
    /\ streams # prevStreams

FlowCorrected(i) == streams[i].flowRate # prevStreams[i].flowRate

\* C20: whenever a closure call changes a stream's flow rate, the stream's
\* solidPercent is what it was, and its solidFlow, waterFlow and
\* volumetricFlow are the values computed from the new flow rate and that
\* solidPercent.
C20_FlowCorrection ==
    (AfterClosure \/ AfterGlobalClosure) =>
        \A i \in DOMAIN streams :
            FlowCorrected(i) =>
                /\ streams[i].solidPercent = prevStreams[i].solidPercent
                /\ streams[i].solidFlow
                      = RMul(streams[i].flowRate, Pct(streams[i].solidPercent))
                /\ streams[i].waterFlow
                      = RSub(streams[i].flowRate, streams[i].solidFlow)
                /\ streams[i].volumetricFlow
                      = VolumetricFlow(streams[i].solidFlow, streams[i].density,
                                       streams[i].waterFlow)

-----------------------------------------------------------------------------
(* Stream invariants over a whole solver run, checked under Spec *)

SolidsConsistent(st) ==
    /\ st.solidFlow = RMul(st.flowRate, Pct(st.solidPercent))
    /\ st.waterFlow = RSub(st.flowRate, st.solidFlow)

\* C21: after every step of a solver run (conversion, each closure, transfer,
\* normalization) and in the returned result, every stream has
\* solidFlow = flowRate * solidPercent / 100 and waterFlow = flowRate - solidFlow.
C21_SolidsAndWater ==
    \A i \in DOMAIN streams : SolidsConsistent(streams[i])

AfterTransfer == pc = "global"

\* the stream of line i as equipment k reads it: already rewritten in this
\* transfer step if the equipment the line leaves is listed before k
ReadBy(k, i) ==
    IF \E j \in 1..(k - 1) : equipments[j].id = propagatedFlowLines[i].fromEquipment
    THEN streams[i]
    ELSE prevStreams[i]

OutputsFollowListOrder ==
    \A k \in DOMAIN equipments :
        LET inIdx == LinesInto(propagatedFlowLines, equipments[k].id)
            outIdx == LinesOutOf(propagatedFlowLines, equipments[k].id)
            out == calculateEquipmentBalanceWithClosure(
                       equipments[k], [n \in DOMAIN inIdx |-> ReadBy(k, inIdx[n])],
                       ActiveComponents(mineralComponents))
        IN  Len(inIdx) > 0 =>
                \A m \in DOMAIN outIdx :
                    m <= Len(out) => streams[outIdx[m]] = out[m]

StepOrder ==
    /\ pc = "loop" => pc' \in {"transfer", "done"}
    /\ pc = "transfer" => pc' = "global"
    /\ pc = "global" => pc' = "normalize"
    /\ pc = "normalize" => pc' = "check"
    /\ pc = "check" => pc' = "loop"
    /\ iteration' = IF pc = "loop" /\ pc' = "transfer" THEN iteration + 1 ELSE iteration

\* C22: an iteration runs closure, equipment transfer, closure, normalization
\* and the convergence test in this order, and in the transfer step every
\* equipment's outputs are its transfer function of its input streams as the
\* equipments listed before it have left them: rewritten in this iteration if
\* the upstream equipment is listed earlier, from the previous iteration if it
\* is listed later.
C22_IterationOrder ==
    /\ [](AfterTransfer => OutputsFollowListOrder)
    /\ [][StepOrder]_vars

\* a chain whose upstream equipment is listed first: the downstream product
\* carries the flow the upstream equipment wrote in this step
C22_Witness ==
    /\ AfterTransfer
    /\ Len(equipments) = 2
    /\ \E i, o \in DOMAIN streams :
          /\ propagatedFlowLines[i].fromEquipment = equipments[1].id
          /\ propagatedFlowLines[i].toEquipment = equipments[2].id
          /\ propagatedFlowLines[o].fromEquipment = equipments[2].id
          /\ streams[i].flowRate # prevStreams[i].flowRate
          /\ streams[o].flowRate = streams[i].flowRate

\* the same chain with the downstream equipment listed first: its product
\* carries the flow the connecting line had before this step
C22_WitnessDownstreamFirst ==
    /\ AfterTransfer
    /\ Len(equipments) = 2
    /\ \E i, o \in DOMAIN streams :
          /\ propagatedFlowLines[i].fromEquipment = equipments[2].id
          /\ propagatedFlowLines[i].toEquipment = equipments[1].id
          /\ propagatedFlowLines[o].fromEquipment = equipments[1].id
          /\ streams[i].flowRate # prevStreams[i].flowRate
          /\ streams[o].flowRate = prevStreams[i].flowRate

-----------------------------------------------------------------------------
(* Further properties of propagateStreamData, checked under SpecPropagate *)

\* the sibling input streams of line i: the streams entering the equipment
\* the line leaves, or for a feed the other streams entering its equipment
Siblings(i) ==
    IF flowLines[i].fromEquipment # None
    THEN {j \in DOMAIN flowLines : flowLines[j].toEquipment = flowLines[i].fromEquipment}
    ELSE {j \in DOMAIN flowLines \ {i} :
             /\ flowLines[i].toEquipment # None
             /\ flowLines[j].toEquipment = flowLines[i].toEquipment}

\* the sum of the positive flow rates of the siblings of i in the array fls
SiblingFlow(fls, i) ==
    RSum([j \in DOMAIN fls |-> fls[j].flowRate],
         {j \in Siblings(i) : RPos(fls[j].flowRate)})

\* C23: a stream without flow rate is given the sum of the positive flow
\* rates of its sibling input streams (as they were passed in, or as they are
\* returned), and the default 1000 only when it has no sibling with a
\* positive flow rate.
C23_SiblingEstimate ==
    pc = "returned" =>
        \A i \in DOMAIN flowLines :
            RIsZero(flowLines[i].flowRate) =>
                IF RPos(SiblingFlow(call.result, i))
                THEN call.result[i].flowRate \in
                        {SiblingFlow(flowLines, i), SiblingFlow(call.result, i)}
                ELSE call.result[i].flowRate = Int2R(DefaultFlow)

-----------------------------------------------------------------------------
(* The solver run as a function of its arguments, checked under Spec *)

\* the streams the loop of lines 314-369 ends with, from the streams ss of
\* iteration it
RECURSIVE LoopResult(_, _, _, _, _, _, _, _)
LoopResult(ss, fls, eqs, ac, it, conv, maxIt, tol) ==
    IF conv \/ it >= maxIt THEN ss
    ELSE CHOOSE r \in
           { LoopResult(normal, fls, eqs, ac, it + 1,
                        checkConvergence(normal, fls, ac, tol).converged,
                        maxIt, tol) :
               normal \in
                 { normalizeStreamCompositions(global, ac) :
                     global \in
                       { applyGlobalMassBalanceWithClosure(moved, fls, ac) :
                           moved \in
                             { TransferAll(closed, fls, eqs, 1, ac) :
                                 closed \in
                                   { applyMassBalanceClosure(ss, fls, ac) } } } } } :
             TRUE

StreamsOf(eqs, fls, mc, maxIt, tol) ==
    CHOOSE r \in
      { LoopResult([i \in DOMAIN propagated |->
                       convertToDetailedStream(propagated[i], ActiveComponents(mc))],
                   propagated, eqs, ActiveComponents(mc), 0, FALSE, maxIt, tol) :
          propagated \in { propagateStreamData(fls, mc) } } :
        TRUE

ArgumentsKept ==
    /\ flowLines' = flowLines
    /\ equipments' = equipments
    /\ mineralComponents' = mineralComponents

C25_MaxError ==
    Returned =>
        /\ ~iterativeResult.maxError.negInfinity
        /\ RLe(Zero, iterativeResult.maxError.value)
        /\ iterativeResult.maxError.value
              = RMaxOf(iterativeResult.componentErrors, DOMAIN iterativeResult.componentErrors)
        /\ iterativeResult.converged
              <=> (Len(checkLog) > 0 /\ checkLog[Len(checkLog)])

\* a mixer whose configured split percentages are non-negative and add up to
\* one hundred
ConfiguredSplits ==
    LET splits == equipments[1].parameters.splits
    IN  /\ equipments[1].type = "mixer"
        /\ splits.has
        /\ \A i \in DOMAIN splits.list : RLe(Zero, splits.list[i])
        /\ RSum(splits.list, DOMAIN splits.list) = Hundred

\* the outputs of the call carry the input totals: the flow rates add up to
\* the input flow rates and so does the mass of every active component
OutputsCarryInputs ==
    /\ RSum([k \in DOMAIN call.result |-> call.result[k].flowRate],
            DOMAIN call.result)
          = RSum([k \in DOMAIN call.arg |-> call.arg[k].flowRate],
                 DOMAIN call.arg)
    /\ \A c \in Active :
          RSum([k \in DOMAIN call.result |-> call.result[k].componentMass[c]],
               DOMAIN call.result)
             = RSum([k \in DOMAIN call.arg |-> call.arg[k].componentMass[c]],
                    DOMAIN call.arg)

\* C26: for a mixer whose configured split percentages are non-negative and
\* sum to 100, a split of 0 for some port included, the outputs together
\* carry exactly the input totals: the output flow rates add up to the sum of
\* the input flow rates and, for every active component, the output component
\* masses add up to the sum of the input component masses.
C26_SplitsConserve ==
    (pc = "returned" /\ ConfiguredSplits /\ Len(call.arg) > 0)
        => OutputsCarryInputs

\* the same statement for the mixers whose configured splits are all non-zero
C26_NonZeroSplitsConserve ==
    (/\ pc = "returned" /\ ConfiguredSplits /\ Len(call.arg) > 0
     /\ \A i \in DOMAIN equipments[1].parameters.splits.list :
            ~RIsZero(equipments[1].parameters.splits.list[i]))
        => OutputsCarryInputs

\* the flow rate entering and leaving equipment k over the lines connected
\* to it
FlowInto(k) ==
    LET into == { i \in DOMAIN propagatedFlowLines :
                     propagatedFlowLines[i].toEquipment = equipments[k].id }
    IN  RSum([i \in into |-> streams[i].flowRate], into)
FlowOutOf(k) ==
    LET out == { i \in DOMAIN propagatedFlowLines :
                    propagatedFlowLines[i].fromEquipment = equipments[k].id }
    IN  RSum([i \in out |-> streams[i].flowRate], out)

Connected(k) ==
    /\ LinesInto(propagatedFlowLines, equipments[k].id) # <<>>
    /\ LinesOutOf(propagatedFlowLines, equipments[k].id) # <<>>

\* C27: after the transfer step, for every equipment with at least one
\* incoming and at least one outgoing line, the sum of flowRate over the
\* lines leaving it equals the sum of flowRate over the lines entering it,
\* whatever the numbers of lines on each side.
C27_TransferConserves ==
    AfterTransfer =>
        \A k \in DOMAIN equipments : Connected(k) => FlowOutOf(k) = FlowInto(k)

\* the component masses of a stream are its solids times its percentages
MassesConsistent(st) ==
    \A c \in Active :
        Get(st.componentMass, c)
            = RMul(st.solidFlow, Pct(Get(st.componentPercentages, c)))

\* C28: in every returned stream, for every active component,
\* componentMass = solidFlow * componentPercentages / 100, the streams whose
\* bulk flow a closure corrected after the masses were set and the streams
\* the normalization skipped included.
C28_MassesAndPercentages ==
    Returned =>
        \A i \in DOMAIN streams : MassesConsistent(streams[i])

InPercentRange(x) == RLe(Zero, x) /\ RLe(x, Hundred)

\* the inputs of the solver are physically plausible: flows and grades are
\* non-negative, solid percentages and recoveries lie in [0, 100] and mixer
\* splits are non-negative
PlausibleInputs ==
    /\ \A i \in DOMAIN flowLines :
          /\ RLe(Zero, flowLines[i].flowRate)
          /\ InPercentRange(flowLines[i].solidPercent)
          /\ \A c \in DOMAIN flowLines[i].componentGrades.map :
                 RLe(Zero, flowLines[i].componentGrades.map[c])
    /\ \A k \in DOMAIN equipments :
          LET parameters == equipments[k].parameters
          IN  /\ InPercentRange(parameters.recovery)
              /\ \A c \in DOMAIN parameters.components :
                     InPercentRange(parameters.components[c])
              /\ \A j \in DOMAIN parameters.splits.list :
                     RLe(Zero, parameters.splits.list[j])

NonNegativeStream(st) ==
    /\ RLe(Zero, st.flowRate)
    /\ RLe(Zero, st.solidFlow)
    /\ RLe(Zero, st.waterFlow)
    /\ \A c \in DOMAIN st.componentMass : RLe(Zero, st.componentMass[c])
    /\ \A c \in DOMAIN st.componentPercentages :
           RLe(Zero, st.componentPercentages[c])

\* C29: if every flow line has a non-negative flowRate, a solidPercent in
\* [0, 100] and non-negative grades, every recovery lies in [0, 100] and
\* every mixer split is non-negative, then after every step of the solver
\* every flowRate, solidFlow, waterFlow, componentMass entry and
\* componentPercentages entry of every stream is non-negative.
C29_NonNegative ==
    (PlausibleInputs /\ pc # "start") =>
        \A i \in DOMAIN streams : NonNegativeStream(streams[i])

\* a rougher between plausible inputs, after a normalization: its product
\* carries a flow the steps wrote, with water and with iron in it
C29_Witness ==
    /\ PlausibleInputs
    /\ pc = "check"
    /\ \E k \in DOMAIN equipments : equipments[k].type = "rougher"
    /\ "fe" \in Active
    /\ \E i \in DOMAIN streams :
          /\ propagatedFlowLines[i].fromEquipment # None
          /\ streams[i].flowRate # propagatedFlowLines[i].flowRate
          /\ RPos(streams[i].waterFlow)
          /\ RPos(streams[i].componentMass["fe"])

\* every attribute that is set on the line before is the same on the line
\* after
KeepsWhatIsSet(before, after) ==
    /\ ~RIsZero(before.flowRate) => after.flowRate = before.flowRate
    /\ ~RIsZero(before.solidPercent) => after.solidPercent = before.solidPercent
    /\ ~RIsZero(before.density) => after.density = before.density
    /\ ~RIsZero(before.particleSize) => after.particleSize = before.particleSize
    /\ before.components.list # <<>> => after.components = before.components
    /\ \A c \in DOMAIN before.componentGrades.map :
          /\ c \in DOMAIN after.componentGrades.map
          /\ after.componentGrades.map[c] = before.componentGrades.map[c]

\* C30: propagateStreamData only fills gaps: every attribute that is set on
\* an input flow line (a non-zero flowRate, solidPercent, density or
\* particleSize, a non-empty components list, each existing componentGrades
\* entry) has the same value in the returned line, after all the passes and
\* for every order of the lines in the array.
C30_OnlyFillsGaps ==
    pc = "returned" =>
        \A i \in DOMAIN flowLines : KeepsWhatIsSet(flowLines[i], call.result[i])

\* a product assayed at 60 % fe without flow rate, behind a feed of 1000 t/h
\* with 35 % fe: the product is returned with the flow of the feed, the
\* grades the feed has and it lacked, and its own 60 % fe
C30_Witness ==
    /\ pc = "returned"
    /\ \E i, j \in DOMAIN flowLines :
          /\ flowLines[i].fromEquipment = None
          /\ flowLines[i].toEquipment = flowLines[j].fromEquipment
          /\ flowLines[i].flowRate = Int2R(1000)
          /\ Get(flowLines[i].componentGrades.map, "fe") = Int2R(35)
          /\ RIsZero(flowLines[j].flowRate)
          /\ DOMAIN flowLines[j].componentGrades.map = {"fe"}
          /\ Get(flowLines[j].componentGrades.map, "fe") = Int2R(60)
          /\ call.result[j].flowRate = Int2R(1000)
          /\ Get(call.result[j].componentGrades.map, "fe") = Int2R(60)
          /\ Get(call.result[j].componentGrades.map, "sio2") = Int2R(45)


============================================================================
